---- MODULE Spec2Model ----
(***************************************************************************)
(* A model of the OlmMachine binding layer of matrix-sdk-crypto-wasm       *)
(* (src/src/machine.rs, responses.rs, types.rs).                           *)
(*                                                                         *)
(* The binding layer is a set of exported methods, each of which converts  *)
(* its JavaScript arguments, calls one method of the inner state machine   *)
(* (`self.inner`, `me` in the code) and converts the result back.  Every   *)
(* exported method is one action here.  The inner state machine is the     *)
(* crate matrix_sdk_crypto, whose code is not part of src/: the operators  *)
(* named Inner_... model it as the specification describes it (request     *)
(* ledger, classifier, key store, backup pipeline).                        *)
(***************************************************************************)
EXTENDS Integers, Sequences, FiniteSets, TLC

\* ------------------------------------------------------------------ bounds

\* Transaction ids are 1..MaxTxn, allocated in increasing order.
MaxTxn == 2

\* The largest ratchet index of a room key.
MaxIndex == 2

\* The longest batch of to-device payloads passed to receiveSyncChanges.
MaxBatch == 2

\* The longest list of candidate room keys passed to one import.
MaxImport == 1

\* The number of items a stream yields.
MaxItems == 3

\* The number of futures of exported calls running at a time.
MaxFutures == 1

\* The number of outbound group sessions a room has, one after another.
MaxSessions == 2

\* The number of secrets the secrets stream yields.
MaxSecrets == 2

\* ------------------------------------------------------------- value sets

Users == {"u1", "u2"}

\* A room key is named by (room_id, sender_key, session_id); two names.
KeyIds == {"k1", "k2"}

BackupVersions == {"v1", "v2"}

\* requests::RequestType, as matched in responses.rs.
RequestType ==
    {"KeysUpload", "KeysQuery", "KeysClaim", "ToDevice",
     "SignatureUpload", "RoomMessage", "KeysBackup"}

\* The request kinds a caller of markRequestAsSent tries in this model.
TriedTypes == {"KeysQuery", "KeysBackup"}

\* Response bodies passed to markRequestAsSent.  A body is described by the
\* request kinds whose response type it deserializes into: malformed JSON
\* decodes as none, a complete body as every kind, "{}" as the kinds whose
\* response has no mandatory field.
ResponseBodies == {"malformed", "empty_object", "complete"}

TxnIds == 1..MaxTxn

NoKey == [index |-> -1, backedUp |-> FALSE]

\* The devices of the users, as the machine's store holds them.
DevicesOf == [u \in Users |-> IF u = "u1" THEN {"d1"} ELSE {"d1", "d2"}]

\* The (user, device) pairs.
Pairs == {[user |-> u, device |-> d] : u \in Users, d \in DevicesOf["u2"]}
             \ {[user |-> "u1", device |-> "d2"]}

\* The pairs whose device is verified.
VerifiedPairs == Pairs \ {[user |-> "u2", device |-> "d2"]}

\* No outbound group session.  A session has an id (1, 2, ...), the devices
\* it has been shared with, the number of messages encrypted with it, the
\* rotation period in messages it was created with, and whether its rotation
\* period in time has passed.
NoOutbound == [id |-> 0, shared |-> {}, messages |-> 0, max_messages |-> 0, old |-> FALSE]

VARIABLES
    ledger,     \* the pending outgoing requests: txn id -> [kind, users, keys]
    nextTxn,    \* the next fresh transaction id
    tracked,    \* user -> "untracked" | "dirty" | "clean"
    roomKeys,   \* key id -> NoKey or [index, backedUp]
    backup,     \* "Disabled" or the enabled backup version
    acked,      \* the ids removed from the ledger by an acknowledgement
    received,   \* the (room, inviter) pairs whose bundle metadata was received
    bridge,     \* the background job that copies a stream to a callback
    secrets,    \* the local secrets held, and the inbox of gossiped secrets
    sinks,      \* the jobs that pass received secrets to the registered callbacks
    sessions,   \* the (user, device) pairs we have a 1:1 Olm session with
    outbound,   \* the outbound group session of the room, or NoOutbound
    exported,   \* the encrypted key export that the caller holds, or NoExport
    roomSettings, \* room -> the room settings in the store, if any
    lookup,     \* the getDevice / getUserDevices call in flight, or NoLookup
    imports,    \* task -> an import running in the background: its keys left to merge
    last        \* the last exported call: its name, arguments and result

vars == <<ledger, nextTxn, tracked, roomKeys, backup, acked, received, bridge,
          secrets, sinks, sessions, outbound, exported, roomSettings, lookup, imports, last>>

core == <<ledger, tracked, roomKeys, backup>>

\* ---------------------------------------------------------- request ledger

\* The ledger with request `n` of the given kind added (the specification's
\* enqueue: the request becomes visible to the next poll).
Inner_enqueue(l, n, kind, users, keys) ==
    [t \in (DOMAIN l) \cup {n} |->
        IF t = n THEN [kind |-> kind, users |-> users, keys |-> keys] ELSE l[t]]

\* The ledger without the requests in `gone`.
Inner_remove(l, gone) == [t \in (DOMAIN l) \ gone |-> l[t]]

\* matrix_sdk_crypto's OlmMachine::outgoing_requests: all pending requests.
Inner_outgoing_requests(l) ==
    {[request_id |-> t, kind |-> l[t].kind] : t \in DOMAIN l}

\* requests::outgoing_request_to_js_value: one JavaScript request object per
\* pending request, of the class of its kind, carrying the transaction id.
outgoing_request_to_js_value(r) == [id |-> r.request_id, type |-> r.kind]

NoPoll == [has |-> FALSE, requests |-> {}]

\* outgoingRequests(): the pending requests, converted, as an Array.  Nothing
\* of the machine is changed.
\* A poll that takes the returned requests out of the ledger.
OutgoingRequestsDraining ==
    /\ ledger' = Inner_remove(ledger, DOMAIN ledger)
    /\ last' = [op |-> "outgoingRequests",
                requests |-> {outgoing_request_to_js_value(r) :
                                  r \in Inner_outgoing_requests(ledger)},
                prev |-> IF last.op = "outgoingRequests"
                         THEN [has |-> TRUE, requests |-> last.requests]
                         ELSE NoPoll]
    /\ UNCHANGED <<nextTxn, tracked, roomKeys, backup, acked, received, bridge, secrets, sinks, sessions, outbound, exported, roomSettings, lookup, imports>>

OutgoingRequests ==
    /\ last' = [op |-> "outgoingRequests",
                requests |-> {outgoing_request_to_js_value(r) :
                                  r \in Inner_outgoing_requests(ledger)},
                prev |-> IF last.op = "outgoingRequests"
                         THEN [has |-> TRUE, requests |-> last.requests]
                         ELSE NoPoll]
    /\ UNCHANGED <<ledger, nextTxn, tracked, roomKeys, backup, acked, received, bridge, secrets, sinks, sessions, outbound, exported, roomSettings, lookup, imports>>

\* ruma's IncomingResponse::try_from_http_response for the response type of
\* `type`, on a status-200 response with the given body.
TryFromHttpResponse(type, body) ==
    \/ body = "complete"
    \/ body = "empty_object" /\ type \in {"KeysQuery", "ToDevice", "SignatureUpload"}

\* OwnedResponse::try_from((request_type, response)): the decoder is chosen by
\* the request type the caller supplied; the result is the OwnedResponse
\* variant of that type, or the decoder's error as a JsError.
\* A conversion that accepts every body.
OwnedResponse_try_from_AnyBody(type, body) ==
    [ok |-> TRUE, variant |-> type]

OwnedResponse_try_from(type, body) ==
    IF TryFromHttpResponse(type, body)
    THEN [ok |-> TRUE, variant |-> type]
    ELSE [ok |-> FALSE, variant |-> "JsError"]

\* matrix_sdk_crypto's OlmMachine::mark_request_as_sent(transaction_id,
\* response), as the specification's acknowledge: an unknown id is a no-op
\* reported as not found, a response of another kind than the recorded one is
\* a type mismatch, otherwise the entry is removed and the side effects of
\* the response are applied.
Inner_mark_outcome(id, variant) ==
    IF id \notin DOMAIN ledger THEN "NotFound"
    ELSE IF ledger[id].kind # variant THEN "RequestTypeMismatch"
    ELSE "Sent"

\* The tracked users after a key query for `users` completed.
Inner_after_keys_query(users) ==
    [u \in Users |-> IF u \in users /\ tracked[u] = "dirty" THEN "clean" ELSE tracked[u]]

\* The key store after a backup upload of `keys` was acknowledged.
Inner_after_keys_backup(keys) ==
    [k \in KeyIds |->
        IF k \in keys /\ roomKeys[k] # NoKey
        THEN [roomKeys[k] EXCEPT !.backedUp = TRUE] ELSE roomKeys[k]]

\* The Olm sessions after a key claim for `pairs` completed: "a key-claim
\* response unblocks pending room-key shares".
Inner_after_keys_claim(pairs) == sessions \cup pairs

\* The name by which a to-device request refers to an outbound group session.
SessionName(n) == ToString(n)

\* The outbound group session after a to-device request was sent: if the
\* request carried the current session, its devices now hold it.
Inner_after_to_device(pairs, carried) ==
    IF outbound.id # 0 /\ carried = {SessionName(outbound.id)}
    THEN [outbound EXCEPT !.shared = @ \cup pairs]
    ELSE outbound

\* `me.mark_request_as_sent(..).await.map(|_| true)?`: the promise resolves
\* to true whenever the inner call returned Ok, and rejects with its error.
\* A promise that resolves to true whatever the machine answered.
MarkResult_Swallowing(outcome) == "true"

\* A promise that rejects when the id was not in the ledger.
MarkResult_NotFoundIsError(outcome) ==
    IF outcome = "Sent" THEN "true" ELSE outcome

\* A promise that resolves to false when the id was not in the ledger.
MarkResult_Reporting(outcome) ==
    IF outcome = "Sent" THEN "true" ELSE IF outcome = "NotFound" THEN "false" ELSE outcome

MarkResult(outcome) ==
    IF outcome \in {"Sent", "NotFound"} THEN "true" ELSE outcome

\* markRequestAsSent(request_id, request_type, response).
MarkRequestAsSent(id, type, body) ==
    LET decoded == OwnedResponse_try_from(type, body)
        outcome == IF decoded.ok THEN Inner_mark_outcome(id, decoded.variant)
                   ELSE "ResponseDecodeFailure"
        sent    == outcome = "Sent"
    IN  /\ ledger' = IF sent THEN Inner_remove(ledger, {id}) ELSE ledger
        /\ tracked' = IF sent /\ ledger[id].kind = "KeysQuery"
                      THEN Inner_after_keys_query(ledger[id].users) ELSE tracked
        /\ roomKeys' = IF sent /\ ledger[id].kind = "KeysBackup"
                       THEN Inner_after_keys_backup(ledger[id].keys) ELSE roomKeys
        /\ sessions' = IF sent /\ ledger[id].kind = "KeysClaim"
                       THEN Inner_after_keys_claim(ledger[id].users) ELSE sessions
        /\ outbound' = IF sent /\ ledger[id].kind = "ToDevice"
                       THEN Inner_after_to_device(ledger[id].users, ledger[id].keys)
                       ELSE outbound
        /\ acked' = IF sent THEN acked \cup {id} ELSE acked
        /\ last' = [op |-> "markRequestAsSent", id |-> id, type |-> type,
                    body |-> body,
                    recorded |-> IF id \in DOMAIN ledger THEN ledger[id].kind ELSE "none",
                    result |-> MarkResult(outcome)]
        /\ UNCHANGED <<nextTxn, backup, received, bridge, secrets, sinks, exported, roomSettings, lookup, imports>>

\* ------------------------------------------------------------ tracked users

\* An updateTrackedUsers that flags every user it is given, tracked or not.
UpdateTrackedUsers_Requerying(users) ==
    /\ users # {} => nextTxn <= MaxTxn
    /\ tracked' = [u \in Users |-> IF u \in users THEN "dirty" ELSE tracked[u]]
    /\ ledger' = IF users = {} THEN ledger
                 ELSE Inner_enqueue(ledger, nextTxn, "KeysQuery", users, {})
    /\ nextTxn' = IF users = {} THEN nextTxn ELSE nextTxn + 1
    /\ last' = [op |-> "updateTrackedUsers", users |-> users,
                added |-> {u \in users : tracked[u] = "untracked"}]
    /\ UNCHANGED <<roomKeys, backup, acked, received, bridge, secrets, sinks, sessions, outbound, exported, roomSettings, lookup, imports>>

\* updateTrackedUsers(users): users not seen before are tracked and flagged
\* for a key query; users already in the list are unaffected.
UpdateTrackedUsers(users) ==
    LET new == {u \in users : tracked[u] = "untracked"}
    IN  /\ new # {} => nextTxn <= MaxTxn
        /\ tracked' = [u \in Users |-> IF u \in new THEN "dirty" ELSE tracked[u]]
        /\ ledger' = IF new = {} THEN ledger
                     ELSE Inner_enqueue(ledger, nextTxn, "KeysQuery", new, {})
        /\ nextTxn' = IF new = {} THEN nextTxn ELSE nextTxn + 1
        /\ last' = [op |-> "updateTrackedUsers", users |-> users, added |-> new]
        /\ UNCHANGED <<roomKeys, backup, acked, received, bridge, secrets, sinks, sessions, outbound, exported, roomSettings, lookup, imports>>

\* ------------------------------------------------------------------ backup

ResetBackedUp(keys) == [k \in KeyIds |-> [keys[k] EXCEPT !.backedUp = FALSE]]

\* The room keys that backup() selects: those held and not flagged backed up.
NotBackedUp(keys) == {k \in KeyIds : keys[k] # NoKey /\ ~keys[k].backedUp}

\* The room keys held.
Held(keys) == {k \in KeyIds : keys[k] # NoKey}

\* A verifyBackup that enables the backup it was asked to verify.
VerifyBackup_Enabling(info_ok, trusted) ==
    /\ backup' = IF info_ok /\ trusted THEN "v1" ELSE backup
    /\ last' = [op |-> "verifyBackup", ok |-> info_ok, trusted |-> info_ok /\ trusted]
    /\ UNCHANGED <<ledger, nextTxn, tracked, roomKeys, acked, received, bridge, secrets, sinks, sessions, outbound, exported, roomSettings, lookup, imports>>

\* verifyBackup(backup_info): `info_ok` is whether backup_info deserializes
\* into a RoomKeyBackupInfo, `trusted` what the signature check finds.  The
\* result is a SignatureVerification; nothing is stored.
VerifyBackup(info_ok, trusted) ==
    /\ last' = [op |-> "verifyBackup", ok |-> info_ok, trusted |-> info_ok /\ trusted]
    /\ UNCHANGED <<ledger, nextTxn, tracked, roomKeys, backup, acked, received, bridge, secrets, sinks, sessions, outbound, exported, roomSettings, lookup, imports>>

\* isBackupEnabled(): "true if we have an active BackupKey and backup version
\* registered with the state machine".
IsBackupEnabled ==
    /\ last' = [op |-> "isBackupEnabled", result |-> backup # "Disabled"]
    /\ UNCHANGED <<ledger, nextTxn, tracked, roomKeys, backup, acked, received, bridge, secrets, sinks, sessions, outbound, exported, roomSettings, lookup, imports>>

\* roomKeyCounts(): the number of room keys held and of those backed up.
RoomKeyCounts ==
    /\ last' = [op |-> "roomKeyCounts", total |-> Cardinality(Held(roomKeys)),
                backedUp |-> Cardinality(Held(roomKeys) \ NotBackedUp(roomKeys))]
    /\ UNCHANGED <<ledger, nextTxn, tracked, roomKeys, backup, acked, received, bridge, secrets, sinks, sessions, outbound, exported, roomSettings, lookup, imports>>

\* An enableBackupV1 that keeps the backed-up flags of the earlier version.
EnableBackupV1_KeepingFlags(key_ok, version) ==
    /\ backup' = IF key_ok THEN version ELSE backup
    /\ last' = [op |-> "enableBackupV1", version |-> version, ok |-> key_ok, reset |-> {}]
    /\ UNCHANGED <<ledger, nextTxn, tracked, roomKeys, acked, received, bridge, secrets, sinks, sessions, outbound, exported, roomSettings, lookup, imports>>

\* enableBackupV1(public_key_base_64, version): a key that is not valid
\* base64 is an error before the machine is touched.
EnableBackupV1(key_ok, version) ==
    /\ backup' = IF key_ok THEN version ELSE backup
    /\ roomKeys' = IF key_ok /\ backup # version THEN ResetBackedUp(roomKeys) ELSE roomKeys
    /\ last' = [op |-> "enableBackupV1", version |-> version, ok |-> key_ok,
                reset |-> IF key_ok /\ backup # version
                          THEN {k \in KeyIds : roomKeys[k].backedUp} ELSE {}]
    /\ UNCHANGED <<ledger, nextTxn, tracked, acked, received, bridge, secrets, sinks, sessions, outbound, exported, roomSettings, lookup, imports>>

\* A disableBackup that leaves the pending backup requests in the ledger.
DisableBackup_KeepingRequests ==
    /\ backup' = "Disabled"
    /\ roomKeys' = ResetBackedUp(roomKeys)
    /\ last' = [op |-> "disableBackup"]
    /\ UNCHANGED <<ledger, nextTxn, tracked, acked, received, bridge, secrets, sinks, sessions, outbound, exported, roomSettings, lookup, imports>>

\* A disableBackup that removes every pending request, of any kind.
DisableBackup_ClearingAll ==
    /\ backup' = "Disabled"
    /\ roomKeys' = ResetBackedUp(roomKeys)
    /\ ledger' = Inner_remove(ledger, DOMAIN ledger)
    /\ last' = [op |-> "disableBackup"]
    /\ UNCHANGED <<nextTxn, tracked, acked, received, bridge, secrets, sinks, sessions, outbound, exported, roomSettings, lookup, imports>>

\* disableBackup(): "This will remove any pending backup request, remove the
\* backup key and reset the backup state of each room key we have."
DisableBackup ==
    /\ backup' = "Disabled"
    /\ roomKeys' = ResetBackedUp(roomKeys)
    /\ ledger' = Inner_remove(ledger, {t \in DOMAIN ledger : ledger[t].kind = "KeysBackup"})
    /\ last' = [op |-> "disableBackup"]
    /\ UNCHANGED <<nextTxn, tracked, acked, received, bridge, secrets, sinks, sessions, outbound, exported, roomSettings, lookup, imports>>

\* A backupRoomKeys that selects every key held, backed up or not.
BackupRoomKeys_All ==
    LET keys == Held(roomKeys)
        some == backup # "Disabled" /\ keys # {}
    IN  /\ some => nextTxn <= MaxTxn
        /\ ledger' = IF some THEN Inner_enqueue(ledger, nextTxn, "KeysBackup", {}, keys)
                     ELSE ledger
        /\ nextTxn' = IF some THEN nextTxn + 1 ELSE nextTxn
        /\ last' = [op |-> "backupRoomKeys", request |-> IF some THEN nextTxn ELSE 0,
                    keys |-> IF some THEN keys ELSE {}]
        /\ UNCHANGED <<tracked, roomKeys, backup, acked, received, bridge, secrets, sinks, sessions, outbound, exported, roomSettings, lookup, imports>>

\* backupRoomKeys(): with backup enabled and keys not yet backed up, one
\* KeysBackupRequest for those keys; otherwise nothing.
BackupRoomKeys ==
    LET keys == NotBackedUp(roomKeys)
        some == backup # "Disabled" /\ keys # {}
    IN  /\ some => nextTxn <= MaxTxn
        /\ ledger' = IF some THEN Inner_enqueue(ledger, nextTxn, "KeysBackup", {}, keys)
                     ELSE ledger
        /\ nextTxn' = IF some THEN nextTxn + 1 ELSE nextTxn
        /\ last' = [op |-> "backupRoomKeys", request |-> IF some THEN nextTxn ELSE 0,
                    keys |-> IF some THEN keys ELSE {}]
        /\ UNCHANGED <<tracked, roomKeys, backup, acked, received, bridge, secrets, sinks, sessions, outbound, exported, roomSettings, lookup, imports>>

\* ------------------------------------------------------------- sync ingestion

\* What the Crypto Core makes of an encrypted to-device payload: a successful
\* decryption, with the algorithm recorded in its EncryptionInfo, or one of
\* the four failure reasons of matrix_sdk_common's ToDeviceUnableToDecryptReason.
SdkReasons ==
    {"SdkDecryptionFailure", "SdkUnverifiedSenderDevice",
     "SdkNoOlmMachine", "SdkEncryptionIsDisabled"}

AlgorithmInfos == {"OlmV1Curve25519AesSha2", "MegolmV1AesSha2"}

Rooms == {"r1", "r2"}

\* The room of each room key.
RoomOf == [k \in KeyIds |-> IF k = "k1" THEN "r1" ELSE "r2"]

\* The metadata of a received room key bundle is kept under (room, inviter).
BundleData == {[room |-> r, inviter |-> u] : r \in Rooms, u \in Users}

NoBundle == [room |-> "none", inviter |-> "none"]

\* The secrets that devices gossip: the private cross-signing keys (taken as
\* one) and the backup decryption key.
SecretNames == {"m.cross_signing.master", "m.megolm_backup.v1"}

SecretValues == {"x", "y"}

NoSecret == [name |-> "none", value |-> "none"]

\* Who sent a to-device payload: one of the user's own devices, verified or
\* not, or a device of another user.
Senders == {"own_verified", "own_unverified", "other"}

\* The to-device payloads of a sync response.  `raw` is the payload's JSON.
Payloads ==
    {[raw |-> "j_invalid", shape |-> "invalid", decrypt |-> "none", bundle |-> NoBundle,
      secret |-> NoSecret, sender |-> "other"],
     [raw |-> "j_plain", shape |-> "plaintext", decrypt |-> "none", bundle |-> NoBundle,
      secret |-> NoSecret, sender |-> "other"]}
    \cup {[raw |-> d, shape |-> "encrypted", decrypt |-> d, bundle |-> NoBundle,
           secret |-> NoSecret, sender |-> "other"] :
              d \in AlgorithmInfos \cup SdkReasons}

\* The Olm-encrypted to-device payloads that carry the metadata of a room key
\* bundle: the room, and the user who sent it (the inviter).
BundlePayloads ==
    {[raw |-> "j_bundle", shape |-> "encrypted", decrypt |-> "OlmV1Curve25519AesSha2",
      bundle |-> b, secret |-> NoSecret, sender |-> "other"] : b \in BundleData}

\* The m.secret.send payloads: a secret, sent by some device, in an event
\* that is Olm-encrypted and decrypts, or is encrypted and does not decrypt,
\* or is plain text, or is malformed.
SecretPayloads ==
    {[raw |-> "j_secret", shape |-> sh[1], decrypt |-> sh[2], bundle |-> NoBundle,
      secret |-> [name |-> n, value |-> v], sender |-> f] :
         sh \in {<<"encrypted", "OlmV1Curve25519AesSha2">>,
                 <<"encrypted", "SdkDecryptionFailure">>,
                 <<"plaintext", "none">>, <<"invalid", "none">>},
         n \in SecretNames, v \in SecretValues, f \in Senders}

\* The bundle metadata the machine records from a batch: that of the payloads
\* it decrypts.
Inner_bundle_metadata(events) ==
    {events[i].bundle : i \in {j \in 1..Len(events) :
                                  /\ events[j].decrypt = "OlmV1Curve25519AesSha2"
                                  /\ events[j].bundle # NoBundle}}

\* The batches of at most n payloads.
Batches(n) == UNION {[1..k -> Payloads] : k \in 0..n}

\* The classification of one payload by matrix_sdk_crypto's
\* receive_sync_changes: a ProcessedToDeviceEvent.
Inner_classify(p) ==
    IF p.shape = "invalid"
    THEN [variant |-> "Invalid", raw |-> p.raw, algorithm_info |-> "none", reason |-> "none"]
    ELSE IF p.shape = "plaintext"
    THEN [variant |-> "PlainText", raw |-> p.raw, algorithm_info |-> "none", reason |-> "none"]
    ELSE IF p.decrypt \in AlgorithmInfos
    THEN [variant |-> "Decrypted", raw |-> p.raw, algorithm_info |-> p.decrypt,
          reason |-> "none"]
    ELSE [variant |-> "UnableToDecrypt", raw |-> p.raw, algorithm_info |-> "none",
          reason |-> p.decrypt]

\* One ProcessedToDeviceEvent per payload, in input order.
Inner_receive_sync_changes(events) ==
    [i \in 1..Len(events) |-> Inner_classify(events[i])]

\* impl From<matrix_sdk_common ToDeviceUnableToDecryptReason> for
\* ToDeviceUnableToDecryptReason.
\* A conversion with two arms exchanged.
UnableToDecryptReason_from_Swapped(value) ==
    CASE value = "SdkDecryptionFailure" -> "UnverifiedSenderDevice"
      [] value = "SdkUnverifiedSenderDevice" -> "DecryptionFailure"
      [] value = "SdkNoOlmMachine" -> "NoOlmMachine"
      [] value = "SdkEncryptionIsDisabled" -> "EncryptionIsDisabled"

UnableToDecryptReason_from(value) ==
    CASE value = "SdkDecryptionFailure" -> "DecryptionFailure"
      [] value = "SdkUnverifiedSenderDevice" -> "UnverifiedSenderDevice"
      [] value = "SdkNoOlmMachine" -> "NoOlmMachine"
      [] value = "SdkEncryptionIsDisabled" -> "EncryptionIsDisabled"

\* impl TryFrom<EncryptionInfo> for ToDeviceEncryptionInfo: only Olm
\* algorithm info converts.
\* A conversion with the arms of the room-event EncryptionInfo: Megolm
\* converts, Olm does not.
ToDeviceEncryptionInfo_try_from_Swapped(algorithm_info) ==
    IF algorithm_info = "MegolmV1AesSha2"
    THEN [ok |-> TRUE, info |-> "ToDeviceEncryptionInfo"]
    ELSE [ok |-> FALSE, info |-> "UnsupportedAlgorithmError"]

ToDeviceEncryptionInfo_try_from(algorithm_info) ==
    IF algorithm_info = "OlmV1Curve25519AesSha2"
    THEN [ok |-> TRUE, info |-> "ToDeviceEncryptionInfo"]
    ELSE [ok |-> FALSE, info |-> "UnsupportedAlgorithmError"]

NoValue == [type |-> "none", rawEvent |-> "none", info |-> "none", reason |-> "none"]

\* processed_to_device_event_to_js_value: Some(value) of one of the four
\* JavaScript event types, or None when the encryption info of a decrypted
\* event does not convert ("we just throw away the event").
\* A conversion that gives no value for an event that failed.
processed_to_device_event_to_js_value_Aborting(ev) ==
    IF ev.variant \in {"UnableToDecrypt", "Invalid"}
    THEN [some |-> FALSE, value |-> NoValue]
    ELSE [some |-> TRUE,
          value |-> [type |-> ev.variant, rawEvent |-> ev.raw, info |-> "none",
                     reason |-> "none"]]

processed_to_device_event_to_js_value(ev) ==
    CASE ev.variant = "Decrypted" ->
            LET encryption_info == ToDeviceEncryptionInfo_try_from(ev.algorithm_info)
            IN  IF encryption_info.ok
                THEN [some |-> TRUE,
                      value |-> [type |-> "Decrypted", rawEvent |-> ev.raw,
                                 info |-> encryption_info.info, reason |-> "none"]]
                ELSE [some |-> FALSE, value |-> NoValue]
      [] ev.variant = "UnableToDecrypt" ->
            [some |-> TRUE,
             value |-> [type |-> "UnableToDecrypt", rawEvent |-> ev.raw, info |-> "none",
                        reason |-> UnableToDecryptReason_from(ev.reason)]]
      [] ev.variant = "PlainText" ->
            [some |-> TRUE,
             value |-> [type |-> "PlainText", rawEvent |-> ev.raw, info |-> "none",
                        reason |-> "none"]]
      [] ev.variant = "Invalid" ->
            [some |-> TRUE,
             value |-> [type |-> "Invalid", rawEvent |-> ev.raw, info |-> "none",
                        reason |-> "none"]]

IsSome(x) == x.some

\* `.into_iter().filter_map(processed_to_device_event_to_js_value).collect()`.
FilterMapToJs(processed) ==
    LET mapped == [i \in 1..Len(processed) |->
                       processed_to_device_event_to_js_value(processed[i])]
        kept   == SelectSeq(mapped, IsSome)
    IN  [i \in 1..Len(kept) |-> kept[i].value]

\* No local secret is held and the inbox is empty.
NoSecrets == [held |-> {}, inbox |-> {}]

\* The callbacks given to registerReceiveSecretCallback.
SinkIds == {"cb1", "cb2"}

\* The job of a callback that is not registered: `feed` holds the secrets
\* its stream has yielded and the job has not taken, `calls` the calls made,
\* `pc` is where the job is, "next" (at stream.next()) or "await" (at the
\* promise the callback returned); `warnings` counts the warn! lines.
NoSink == [registered |-> FALSE, feed |-> <<>>, calls |-> <<>>, pc |-> "next", warnings |-> 0]

NoSinks == [s \in SinkIds |-> NoSink]

\* Whether the machine accepts the secret of a payload: the payload is an
\* Olm-encrypted event that decrypts and its sender is one of the user's own
\* verified devices.
\* An acceptance that does not look at the sender.
Inner_accepts_secret_AnySender(p) ==
    /\ p.secret # NoSecret
    /\ Inner_classify(p).variant = "Decrypted"
    /\ p.decrypt = "OlmV1Curve25519AesSha2"

Inner_accepts_secret(p) ==
    /\ p.secret # NoSecret
    /\ Inner_classify(p).variant = "Decrypted"
    /\ p.decrypt = "OlmV1Curve25519AesSha2"
    /\ p.sender = "own_verified"

\* matrix_sdk_crypto's GossippedSecret: the secret's name and the event that
\* carried it.
GossippedSecret(p) == [secret_name |-> p.secret.name, event |-> p]

\* The secrets accepted from a batch, in the order of the batch.
Inner_received_secrets(events) ==
    LET kept == SelectSeq(events, Inner_accepts_secret)
    IN  [i \in 1..Len(kept) |-> GossippedSecret(kept[i])]

\* The backup decryption key is put in the inbox and on the secrets stream;
\* "the cross signing secrets are handled internally".
IsBroadcast(g) == g.secret_name = "m.megolm_backup.v1"

\* The secrets held and the inbox after a batch.
Inner_after_secrets(events) ==
    LET got == Inner_received_secrets(events)
    IN  [held  |-> secrets.held \cup
                       {got[i].secret_name : i \in {j \in 1..Len(got) : ~IsBroadcast(got[j])}},
         inbox |-> secrets.inbox \cup
                       {got[i] : i \in {j \in 1..Len(got) : IsBroadcast(got[j])}}]

\* store().secrets_stream(): every subscriber is yielded the secrets put in
\* the inbox, in order.
Inner_secrets_stream(events) ==
    [s \in SinkIds |->
        IF sinks[s].registered
        THEN [sinks[s] EXCEPT
                 !.feed = @ \o SelectSeq(Inner_received_secrets(events), IsBroadcast)]
        ELSE sinks[s]]

\* A delta that treats a user who left as a changed one.
Inner_after_device_lists_LeftAsChanged(changed, left) ==
    [u \in Users |->
        IF tracked[u] = "untracked" THEN "untracked"
        ELSE IF u \in changed \cup left THEN "dirty"
        ELSE tracked[u]]

\* The tracked users after the device-list delta of a sync: a changed tracked
\* user owes a key query, a tracked user who left owes none.
Inner_after_device_lists(changed, left) ==
    [u \in Users |->
        IF tracked[u] = "untracked" THEN "untracked"
        ELSE IF u \in left THEN "clean"
        ELSE IF u \in changed THEN "dirty"
        ELSE tracked[u]]

\* The users that a pending key query covers.
QueriedUsers == UNION {ledger[t].users : t \in {x \in DOMAIN ledger : ledger[x].kind = "KeysQuery"}}

\* A receiveSyncChanges that hands the machine an empty device-list delta.
ReceiveSyncChanges_DroppingDeviceLists(json_ok, events, changed, left) ==
    LET processed == Inner_receive_sync_changes(events)
    IN  /\ last' = [op |-> "receiveSyncChanges", ok |-> json_ok, events |-> events,
                    changed |-> changed, left |-> left,
                    processed |-> IF json_ok THEN processed ELSE <<>>,
                    returned |-> IF json_ok THEN FilterMapToJs(processed) ELSE <<>>]
        /\ received' = IF json_ok THEN received \cup Inner_bundle_metadata(events)
                       ELSE received
        /\ secrets' = IF json_ok THEN Inner_after_secrets(events) ELSE secrets
        /\ sinks' = IF json_ok THEN Inner_secrets_stream(events) ELSE sinks
        /\ UNCHANGED <<ledger, nextTxn, tracked, roomKeys, backup, acked, bridge, sessions, outbound, exported, roomSettings, lookup, imports>>

\* receiveSyncChanges(to_device_events, changed_devices, one_time_keys_counts,
\* unused_fallback_keys).  `json_ok` is whether to_device_events parses as a
\* JSON list; if it does not, the call fails before the machine is touched.
ReceiveSyncChanges(json_ok, events, changed, left) ==
    LET after     == Inner_after_device_lists(changed, left)
        owed      == {u \in Users : after[u] = "dirty"} \ QueriedUsers
        processed == Inner_receive_sync_changes(events)
    IN  IF ~json_ok
        THEN /\ last' = [op |-> "receiveSyncChanges", ok |-> FALSE, events |-> events,
                         changed |-> changed, left |-> left,
                         processed |-> <<>>, returned |-> <<>>]
             /\ UNCHANGED <<ledger, nextTxn, tracked, roomKeys, backup, acked, received, bridge, secrets, sinks, sessions, outbound, exported, roomSettings, lookup, imports>>
        ELSE /\ owed # {} => nextTxn <= MaxTxn
             /\ tracked' = after
             /\ ledger' = IF owed = {} THEN ledger
                          ELSE Inner_enqueue(ledger, nextTxn, "KeysQuery", owed, {})
             /\ nextTxn' = IF owed = {} THEN nextTxn ELSE nextTxn + 1
             /\ last' = [op |-> "receiveSyncChanges", ok |-> TRUE, events |-> events,
                         changed |-> changed, left |-> left,
                         processed |-> processed, returned |-> FilterMapToJs(processed)]
             /\ received' = received \cup Inner_bundle_metadata(events)
             /\ secrets' = Inner_after_secrets(events)
             /\ sinks' = Inner_secrets_stream(events)
             /\ UNCHANGED <<roomKeys, backup, acked, bridge, sessions, outbound, exported, roomSettings, lookup, imports>>

\* ------------------------------------------------------------ room key import

\* A candidate room key of an import: its name and its ratchet index.
Candidates == {[id |-> k, index |-> i] : k \in KeyIds, i \in 0..MaxIndex}

\* The lists of at most n candidates.
CandidateLists(n) == UNION {[1..k -> Candidates] : k \in 0..n}

\* The entries of the Map passed to importBackedUpRoomKeys: a session data
\* structure that deserializes into a BackedUpRoomKey (parses) or does not.
BackupEntries ==
    {[parses |-> TRUE, id |-> k, index |-> i] : k \in KeyIds, i \in 0..MaxIndex}
    \cup {[parses |-> FALSE, id |-> "none", index |-> 0]}

BackupEntryLists(n) == UNION {[1..k -> BackupEntries] : k \in 0..n}

\* The merge rule of the key store: a candidate is imported unless the store
\* already holds a key of that name at least as advanced as the candidate.
\* A merge that takes every candidate.
Inner_is_better_Always(store, c) == TRUE

Inner_is_better(store, c) == c.index > store[c.id].index

Inner_import_one(store, c) ==
    IF Inner_is_better(store, c)
    THEN [store EXCEPT ![c.id] = [index |-> c.index, backedUp |-> FALSE]]
    ELSE store

\* matrix_sdk_crypto's Store::import_room_keys: the candidates are merged one
\* by one; the result counts the candidates and those imported.
RECURSIVE Inner_import_room_keys(_, _, _)
Inner_import_room_keys(store, keys, done) ==
    IF keys = <<>>
    THEN [store |-> store, imported_count |-> done.imported_count,
          total_count |-> done.total_count, keys |-> done.keys]
    ELSE LET c   == Head(keys)
             yes == Inner_is_better(store, c)
         IN  Inner_import_room_keys(
                 Inner_import_one(store, c), Tail(keys),
                 [imported_count |-> done.imported_count + (IF yes THEN 1 ELSE 0),
                  total_count |-> done.total_count + 1,
                  keys |-> IF yes THEN done.keys \cup {c.id} ELSE done.keys])

NothingImported == [imported_count |-> 0, total_count |-> 0, keys |-> {}]

\* impl From<matrix_sdk_crypto::RoomKeyImportResult> for RoomKeyImportResult.
RoomKeyImportResult_from(value) ==
    [importedCount |-> value.imported_count, totalCount |-> value.total_count,
     keys |-> value.keys]

NoImportResult == [importedCount |-> 0, totalCount |-> 0, keys |-> {}]

\* importExportedRoomKeys(exported_room_keys, progress_listener).  `json_ok`
\* is whether exported_room_keys parses as a list of ExportedRoomKey.
ImportExportedRoomKeys(json_ok, keys) ==
    LET res == Inner_import_room_keys(roomKeys, keys, NothingImported)
    IN  /\ roomKeys' = IF json_ok THEN res.store ELSE roomKeys
        /\ last' = [op |-> "importExportedRoomKeys", ok |-> json_ok, candidates |-> keys,
                    failures |-> 0,
                    result |-> IF json_ok THEN RoomKeyImportResult_from(res)
                               ELSE NoImportResult]
        /\ UNCHANGED <<ledger, nextTxn, tracked, backup, acked, received, bridge, secrets, sinks, sessions, outbound, exported, roomSettings, lookup, imports>>

ParsedEntry(e) == e.parses

\* importBackedUpRoomKeys(backed_up_room_keys, progress_listener,
\* backup_version): entries that do not parse are counted as failures and
\* skipped, the others are passed to the store.
ImportBackedUpRoomKeys(entries, version) ==
    LET parsed   == SelectSeq(entries, ParsedEntry)
        keys     == [i \in 1..Len(parsed) |-> [id |-> parsed[i].id, index |-> parsed[i].index]]
        failures == Len(entries) - Len(parsed)
        res      == Inner_import_room_keys(roomKeys, keys, NothingImported)
    IN  /\ roomKeys' = res.store
        /\ last' = [op |-> "importBackedUpRoomKeys", ok |-> TRUE, candidates |-> keys,
                    failures |-> failures, result |-> RoomKeyImportResult_from(res)]
        /\ UNCHANGED <<ledger, nextTxn, tracked, backup, acked, received, bridge, secrets, sinks, sessions, outbound, exported, roomSettings, lookup, imports>>

\* The numbers of a set, in increasing order.
RECURSIVE Ascending(_)
Ascending(numbers) ==
    IF numbers = {} THEN <<>>
    ELSE LET least == CHOOSE n \in numbers : \A m \in numbers : n <= m
         IN  <<least>> \o Ascending(numbers \ {least})

\* Store::import_room_keys calls its progress listener "at bounded intervals
\* (not necessarily per-key)": at some of the points 0..total, in order, with
\* the number of keys done and the number of keys it was given.
Inner_progress_reports(total_valid, points) ==
    LET at == Ascending(points)
    IN  [i \in 1..Len(at) |-> [progress |-> at[i], total_valid |-> total_valid]]

\* A listener call that gives the number of parsed keys as the total.
progress_listener_call3_ValidOnly(report, failures) ==
    [progress |-> report.progress, total |-> report.total_valid, failures |-> failures]

\* The closure passed to import_room_keys: callback.call3(null, progress,
\* total_valid + failures, failures).
progress_listener_call3(report, failures) ==
    [progress |-> report.progress, total |-> report.total_valid + failures,
     failures |-> failures]

\* importBackedUpRoomKeys(backed_up_room_keys, progress_listener,
\* backup_version) with a progress listener: as without, and the listener is
\* called for every report of the store.
ImportBackedUpRoomKeysListening(entries, version, points) ==
    LET parsed   == SelectSeq(entries, ParsedEntry)
        keys     == [i \in 1..Len(parsed) |-> [id |-> parsed[i].id, index |-> parsed[i].index]]
        failures == Len(entries) - Len(parsed)
        res      == Inner_import_room_keys(roomKeys, keys, NothingImported)
        reports  == Inner_progress_reports(Len(keys), points)
    IN  /\ points \subseteq 0..Len(keys)
        /\ roomKeys' = res.store
        /\ last' = [op |-> "importBackedUpRoomKeys", ok |-> TRUE, candidates |-> keys,
                    failures |-> failures, result |-> RoomKeyImportResult_from(res),
                    entries |-> entries,
                    calls |-> [i \in 1..Len(reports) |->
                                  progress_listener_call3(reports[i], failures)]]
        /\ UNCHANGED <<ledger, nextTxn, tracked, backup, acked, received, bridge, secrets,
                       sinks, sessions, outbound, exported, roomSettings, lookup, imports>>

\* The imports that may run at the same time.
Tasks == {"t1", "t2"}

\* No import: `base` is the store before the first of the overlapping
\* imports started, `keys` the candidates the import was given.
NoImport ==
    [pc |-> "idle", method |-> "none", todo |-> <<>>, keys |-> <<>>,
     base |-> [k \in KeyIds |-> NoKey], overlapped |-> FALSE]

\* An import method is called: the future that imports the keys is spawned
\* with its own clone of the machine and runs in the background.
ImportStart(task, method, keys) ==
    LET others == {t \in Tasks \ {task} : imports[t].pc = "running"}
    IN  /\ imports[task].pc = "idle"
        /\ imports' = [imports EXCEPT ![task] =
               [pc |-> "running", method |-> method, todo |-> keys, keys |-> keys,
                base |-> IF others = {} THEN roomKeys
                         ELSE imports[CHOOSE t \in others : TRUE].base,
                overlapped |-> others # {}]]
        /\ last' = [op |-> method, task |-> task]
        /\ UNCHANGED <<ledger, nextTxn, tracked, roomKeys, backup, acked, received, bridge,
                       secrets, sinks, sessions, outbound, exported, roomSettings, lookup>>

\* A step that merges against the store as it was when the import started.
Inner_import_step_Stale(task) ==
    LET c == Head(imports[task].todo)
    IN  /\ imports[task].pc = "running"
        /\ imports[task].todo # <<>>
        /\ roomKeys' = IF Inner_is_better(imports[task].base, c)
                       THEN [roomKeys EXCEPT ![c.id] = [index |-> c.index, backedUp |-> FALSE]]
                       ELSE roomKeys
        /\ imports' = [imports EXCEPT ![task].todo = Tail(@)]
        /\ UNCHANGED <<ledger, nextTxn, tracked, backup, acked, received, bridge, secrets,
                       sinks, sessions, outbound, exported, roomSettings, lookup, last>>

\* The store merges the next key of an import: the key is read, compared and
\* written in one step ("serialize writes per (room_id, sender_key,
\* session_id) key").
Inner_import_step(task) ==
    /\ imports[task].pc = "running"
    /\ imports[task].todo # <<>>
    /\ roomKeys' = Inner_import_one(roomKeys, Head(imports[task].todo))
    /\ imports' = [imports EXCEPT ![task].todo = Tail(@)]
    /\ UNCHANGED <<ledger, nextTxn, tracked, backup, acked, received, bridge, secrets,
                   sinks, sessions, outbound, exported, roomSettings, lookup, last>>

\* The import has merged its keys: the promise resolves.
ImportFinish(task) ==
    /\ imports[task].pc = "running"
    /\ imports[task].todo = <<>>
    /\ imports' = [imports EXCEPT ![task].pc = "done"]
    /\ UNCHANGED <<ledger, nextTxn, tracked, roomKeys, backup, acked, received, bridge,
                   secrets, sinks, sessions, outbound, exported, roomSettings, lookup, last>>

\* receiveRoomKeyBundle(bundle_data, encrypted_bundle).  `bundle_data` is a
\* StoredRoomKeyBundleData, which a caller has only from
\* getReceivedRoomKeyBundleData; `bundle_ok` is whether the bundle decrypts
\* and parses, which is found out before the machine is touched; its keys
\* are then imported by the store, and the promise resolves to undefined.
ReceiveRoomKeyBundle(bundle_data, bundle_ok, keys) ==
    LET res == Inner_import_room_keys(roomKeys, keys, NothingImported)
    IN  /\ bundle_data \in received
        /\ roomKeys' = IF bundle_ok THEN res.store ELSE roomKeys
        /\ last' = [op |-> "receiveRoomKeyBundle", ok |-> bundle_ok, candidates |-> keys,
                    failures |-> 0, bundle_data |-> bundle_data,
                    result |-> IF bundle_ok THEN RoomKeyImportResult_from(res)
                               ELSE NoImportResult]
        /\ UNCHANGED <<ledger, nextTxn, tracked, backup, acked, received, bridge, secrets, sinks, sessions, outbound, exported, roomSettings, lookup, imports>>

\* The candidate lists of a bundle for the given room.
BundleKeyLists(room, n) ==
    {keys \in CandidateLists(n) : \A i \in 1..Len(keys) : RoomOf[keys[i].id] = room}

\* A lookup that answers with any bundle received for the room, whoever sent it.
Inner_get_received_room_key_bundle_data_AnyInviter(room_id, inviter) ==
    IF \E b \in received : b.room = room_id
    THEN [some |-> TRUE, value |-> CHOOSE b \in received : b.room = room_id]
    ELSE [some |-> FALSE, value |-> NoBundle]

\* The store's lookup of the bundle metadata received for (room, inviter).
Inner_get_received_room_key_bundle_data(room_id, inviter) ==
    IF [room |-> room_id, inviter |-> inviter] \in received
    THEN [some |-> TRUE, value |-> [room |-> room_id, inviter |-> inviter]]
    ELSE [some |-> FALSE, value |-> NoBundle]

\* getReceivedRoomKeyBundleData(room_id, inviter): the StoredRoomKeyBundleData
\* of the store's answer, or undefined.
GetReceivedRoomKeyBundleData(room_id, inviter) ==
    LET result == Inner_get_received_room_key_bundle_data(room_id, inviter)
    IN  /\ last' = [op |-> "getReceivedRoomKeyBundleData", room |-> room_id,
                    inviter |-> inviter,
                    result |-> IF result.some THEN "StoredRoomKeyBundleData"
                               ELSE "undefined",
                    data |-> result.value]
        /\ UNCHANGED <<ledger, nextTxn, tracked, roomKeys, backup, acked, received, bridge, secrets, sinks, sessions, outbound, exported, roomSettings, lookup, imports>>

\* The store's bundle for a room: the room keys held for it.
Inner_build_room_key_bundle(room_id) == {k \in Held(roomKeys) : RoomOf[k] = room_id}

\* A buildRoomKeyBundle that encrypts whatever bundle the store gives it.
BuildRoomKeyBundle_EncryptingEmpty(room_id) ==
    /\ last' = [op |-> "buildRoomKeyBundle", room |-> room_id,
                bundle |-> Inner_build_room_key_bundle(room_id),
                result |-> "EncryptedAttachment"]
    /\ UNCHANGED <<ledger, nextTxn, tracked, roomKeys, backup, acked, received, bridge, secrets, sinks, sessions, outbound, exported, roomSettings, lookup, imports>>

\* buildRoomKeyBundle(room_id): undefined when the bundle is empty, otherwise
\* the encrypted attachment of its JSON.
BuildRoomKeyBundle(room_id) ==
    LET bundle == Inner_build_room_key_bundle(room_id)
    IN  /\ last' = [op |-> "buildRoomKeyBundle", room |-> room_id, bundle |-> bundle,
                    result |-> IF bundle = {} THEN "undefined" ELSE "EncryptedAttachment"]
        /\ UNCHANGED <<ledger, nextTxn, tracked, roomKeys, backup, acked, received, bridge, secrets, sinks, sessions, outbound, exported, roomSettings, lookup, imports>>

ImportOps == {"importExportedRoomKeys", "importBackedUpRoomKeys", "receiveRoomKeyBundle"}

\* ---------------------------------------------------------- passphrase export

Passphrases == {"p1", "p2"}

\* The numbers of key-derivation rounds tried.
RoundCounts == {1, 2}

\* The JSON texts passed as exported_room_keys: a list of exported room keys,
\* written compactly or with white space, or a text that is no such list.
ExportTexts ==
    {[valid |-> TRUE, keys |-> ks, spaced |-> b] :
        ks \in CandidateLists(MaxImport), b \in BOOLEAN}
    \cup {[valid |-> FALSE, keys |-> <<>>, spaced |-> FALSE]}

\* serde_json::from_str into Vec<ExportedRoomKey>.
serde_json_from_str(text) == [ok |-> text.valid, keys |-> text.keys]

\* serde_json::to_string of a Vec<ExportedRoomKey>: the compact text.
serde_json_to_string(keys) == [valid |-> TRUE, keys |-> keys, spaced |-> FALSE]

\* The AES key derived from the passphrase with the given number of rounds.
Inner_derive_key(passphrase, rounds) == [passphrase |-> passphrase, rounds |-> rounds]

\* The authentication code over the container's rounds and ciphertext.
Inner_mac(key, rounds, ciphertext) ==
    [key |-> key, rounds |-> rounds, ciphertext |-> ciphertext]

NoCiphertext == [key |-> Inner_derive_key("none", 0), plain |-> <<>>]

\* No container.
NoExport ==
    [header |-> "none", rounds |-> 0, ciphertext |-> NoCiphertext,
     mac |-> Inner_mac(Inner_derive_key("none", 0), 0, NoCiphertext)]

\* matrix_sdk_crypto::encrypt_room_key_export: the keys encrypted under the
\* key derived from the passphrase, in an authenticated container.
Inner_encrypt_room_key_export(keys, passphrase, rounds) ==
    LET key        == Inner_derive_key(passphrase, rounds)
        ciphertext == [key |-> key, plain |-> keys]
    IN  [header |-> "megolm", rounds |-> rounds, ciphertext |-> ciphertext,
         mac |-> Inner_mac(key, rounds, ciphertext)]

NoKeys == [ok |-> FALSE, keys |-> <<>>]

\* A decryption that does not check the authentication code.
Inner_decrypt_room_key_export_Unauthenticated(container, passphrase) ==
    IF container.header # "megolm" THEN NoKeys
    ELSE [ok |-> TRUE, keys |-> container.ciphertext.plain]

\* matrix_sdk_crypto::decrypt_room_key_export: "decryption requires the same
\* passphrase and fails closed (no partial plaintext) on wrong passphrase or
\* corrupted container".
Inner_decrypt_room_key_export(container, passphrase) ==
    LET key == Inner_derive_key(passphrase, container.rounds)
    IN  IF container.header # "megolm" THEN NoKeys
        ELSE IF container.mac # Inner_mac(key, container.rounds, container.ciphertext)
        THEN NoKeys
        ELSE [ok |-> TRUE, keys |-> container.ciphertext.plain]

\* encryptExportedRoomKeys(exported_room_keys, passphrase, rounds): a text
\* that is no list of exported room keys is an error; the machine is not
\* involved.
EncryptExportedRoomKeys(text, passphrase, rounds) ==
    LET parsed == serde_json_from_str(text)
    IN  /\ exported' = IF parsed.ok
                       THEN Inner_encrypt_room_key_export(parsed.keys, passphrase, rounds)
                       ELSE exported
        /\ last' = [op |-> "encryptExportedRoomKeys", ok |-> parsed.ok, text |-> text,
                    passphrase |-> passphrase, rounds |-> rounds]
        /\ UNCHANGED <<ledger, nextTxn, tracked, roomKeys, backup, acked, received, bridge,
                       secrets, sinks, sessions, outbound, roomSettings, lookup, imports>>

\* The ways a container is corrupted between export and import.
Corruptions == {"header", "rounds", "ciphertext", "mac"}

Corrupted(container, how) ==
    CASE how = "header" -> [container EXCEPT !.header = "garbled"]
      [] how = "rounds" -> [container EXCEPT !.rounds = @ + 1]
      [] how = "ciphertext" ->
             [container EXCEPT !.ciphertext.plain =
                                   IF @ = <<>> THEN <<[id |-> "k1", index |-> 0]>> ELSE <<>>]
      [] how = "mac" -> [container EXCEPT !.mac.key = Inner_derive_key("none", 0)]

\* The container is corrupted where the caller keeps it.
Corrupt(how) ==
    /\ exported.header = "megolm"
    /\ exported.mac = Inner_mac(exported.ciphertext.key, exported.rounds, exported.ciphertext)
    /\ exported' = Corrupted(exported, how)
    /\ UNCHANGED <<ledger, nextTxn, tracked, roomKeys, backup, acked, received, bridge,
                   secrets, sinks, sessions, outbound, last, roomSettings, lookup, imports>>

\* decryptExportedRoomKeys(encrypted_exported_room_keys, passphrase), on the
\* container the caller holds: the text of the keys, or an error.
DecryptExportedRoomKeys(passphrase) ==
    LET res == Inner_decrypt_room_key_export(exported, passphrase)
    IN  /\ exported.header # "none"
        /\ last' = [op |-> "decryptExportedRoomKeys", ok |-> res.ok,
                    container |-> exported, passphrase |-> passphrase,
                    text |-> serde_json_to_string(res.keys)]
        /\ UNCHANGED <<ledger, nextTxn, tracked, roomKeys, backup, acked, received, bridge,
                       secrets, sinks, sessions, outbound, exported, roomSettings, lookup, imports>>

\* ------------------------------------------------------ room event decryption

\* Option<WithheldCode> of a missing room key.
WithheldCodes == {"none", "m.blacklisted", "m.unverified", "m.unauthorised", "m.no_olm"}

VerificationLevels ==
    {"UnverifiedIdentity", "VerificationViolation", "UnsignedDevice", "None",
     "MismatchedSender"}

\* A MegolmError: its variant, and what the variant carries.
MegolmError(kind, withheld, detail, level) ==
    [kind |-> kind, withheld |-> withheld, detail |-> detail, level |-> level]

MegolmErrors ==
    {MegolmError("MissingRoomKey", w, "none", "none") : w \in WithheldCodes}
    \cup {MegolmError("Decryption", "none", d, "none") :
             d \in {"UnknownMessageIndex", "InvalidMACTag"}}
    \cup {MegolmError("MismatchedIdentityKeys", "none", "none", "none")}
    \cup {MegolmError("SenderIdentityNotTrusted", "none", "none", vl) :
             vl \in VerificationLevels}
    \cup {MegolmError(k, "none", "none", "none") :
             k \in {"EventError", "JsonError", "MissingSigningKey", "Store"}}

NoMegolmError == MegolmError("none", "none", "none", "none")

\* The closure decryption_error of the conversion: the description is the
\* error's text.
decryption_error(value, code, withheld_code) ==
    [code |-> code, description |-> value.kind, withheld_code |-> withheld_code]

\* A conversion that keeps the withheld code of no error and takes an
\* unsigned device for an unknown one.
MegolmDecryptionError_from_Confused(value) ==
    IF value.kind = "SenderIdentityNotTrusted"
    THEN decryption_error(value, "UnknownSenderDevice", "none")
    ELSE decryption_error(value, "UnableToDecrypt", "m.unverified")

\* impl From<MegolmError> for MegolmDecryptionError.
MegolmDecryptionError_from(value) ==
    CASE value.kind = "MissingRoomKey" ->
             decryption_error(value, "MissingRoomKey", value.withheld)
      [] value.kind = "Decryption" /\ value.detail = "UnknownMessageIndex" ->
             decryption_error(value, "UnknownMessageIndex", "none")
      [] value.kind = "MismatchedIdentityKeys" ->
             decryption_error(value, "UnknownMessageIndex", "none")
      [] value.kind = "SenderIdentityNotTrusted" ->
             (CASE value.level = "VerificationViolation" ->
                       decryption_error(value, "SenderIdentityVerificationViolation", "none")
                [] value.level = "UnsignedDevice" ->
                       decryption_error(value, "UnsignedSenderDevice", "none")
                [] value.level = "None" ->
                       decryption_error(value, "UnknownSenderDevice", "none")
                [] value.level = "UnverifiedIdentity" ->
                       decryption_error(value, "UnableToDecrypt", "none")
                [] value.level = "MismatchedSender" ->
                       decryption_error(value, "MismatchedSender", "none"))
      [] OTHER -> decryption_error(value, "UnableToDecrypt", "none")

\* MegolmDecryptionError::unable_to_decrypt(desc).
unable_to_decrypt(desc) ==
    [code |-> "UnableToDecrypt", description |-> desc, withheld_code |-> "none"]

NoDecryptionError == [code |-> "none", description |-> "none", withheld_code |-> "none"]

\* What the machine's decrypt_room_event gives: a decrypted event, whose
\* encryption info is of an algorithm we understand or not, or a MegolmError.
DecryptOutcomes ==
    {[ok |-> TRUE, algorithm_ok |-> b, error |-> NoMegolmError] : b \in BOOLEAN}
    \cup {[ok |-> FALSE, algorithm_ok |-> FALSE, error |-> e] : e \in MegolmErrors}

\* decryptRoomEvent(event, room_id, decryption_settings): an event that is no
\* JSON is an error thrown at once; otherwise the promise resolves to the
\* decrypted event or rejects with the converted error.  `before` is the code
\* that the previous call rejected with.
DecryptRoomEvent(json_ok, room_id, outcome) ==
    LET error == IF ~json_ok THEN NoDecryptionError
                 ELSE IF ~outcome.ok THEN MegolmDecryptionError_from(outcome.error)
                 ELSE IF ~outcome.algorithm_ok THEN unable_to_decrypt("UnsupportedAlgorithm")
                 ELSE NoDecryptionError
    IN  /\ last' = [op |-> "decryptRoomEvent", room |-> room_id, thrown |-> ~json_ok,
                    resolved |-> json_ok /\ outcome.ok /\ outcome.algorithm_ok,
                    cause |-> IF json_ok THEN outcome.error ELSE NoMegolmError,
                    error |-> error,
                    before |-> IF last.op = "decryptRoomEvent" THEN last.error.code
                               ELSE "none"]
        /\ UNCHANGED <<ledger, nextTxn, tracked, roomKeys, backup, acked, received, bridge,
                       secrets, sinks, sessions, outbound, exported, roomSettings, lookup, imports>>

\* ------------------------------------------------------------ device lookup

\* The values of timeout_secs (Option<f64>) tried.
TimeoutSecs == {"unset", "zero", "positive", "negative", "nan", "infinite"}

\* Duration::from_secs_f64 "will panic if secs is negative, overflows
\* Duration or is not finite".
Duration_from_secs_f64_panics(secs) == secs \in {"negative", "nan", "infinite"}

\* No call is in flight.
NoLookup ==
    [pc |-> "idle", method |-> "none", user |-> "none", data |-> "none", waited |-> "no"]

\* The user's device list "has been marked as stale": a key query is owed.
Inner_is_stale(user) == tracked[user] = "dirty"

\* What the machine knows of the user's devices.
Inner_best_known(user) == IF Inner_is_stale(user) THEN "stale" ELSE "fresh"

\* The call shared by getUserDevices and getDevice: the timeout is converted
\* with Duration::from_secs_f64 before the promise is made; the machine
\* returns at once if the list is not stale or no time is to be waited, and
\* waits for the key query response otherwise.
Lookup(method, user, timeout_secs) ==
    LET panics == timeout_secs # "unset" /\ Duration_from_secs_f64_panics(timeout_secs)
        waits  == ~panics /\ timeout_secs = "positive" /\ Inner_is_stale(user)
    IN  [pc |-> IF panics THEN "panicked" ELSE IF waits THEN "waiting" ELSE "done",
         method |-> method, user |-> user,
         data |-> IF panics \/ waits THEN "none" ELSE Inner_best_known(user),
         waited |-> "no"]

\* getUserDevices(user_id, timeout_secs).
GetUserDevices(user_id, timeout_secs) ==
    /\ lookup.pc # "waiting"
    /\ lookup' = Lookup("getUserDevices", user_id, timeout_secs)
    /\ last' = [op |-> "getUserDevices", user |-> user_id, timeout_secs |-> timeout_secs,
                stale |-> Inner_is_stale(user_id)]
    /\ UNCHANGED <<ledger, nextTxn, tracked, roomKeys, backup, acked, received, bridge,
                   secrets, sinks, sessions, outbound, exported, roomSettings, imports>>

\* getDevice(user_id, device_id, timeout_secs).
GetDevice(user_id, device_id, timeout_secs) ==
    /\ lookup.pc # "waiting"
    /\ lookup' = Lookup("getDevice", user_id, timeout_secs)
    /\ last' = [op |-> "getDevice", user |-> user_id, timeout_secs |-> timeout_secs,
                stale |-> Inner_is_stale(user_id)]
    /\ UNCHANGED <<ledger, nextTxn, tracked, roomKeys, backup, acked, received, bridge,
                   secrets, sinks, sessions, outbound, exported, roomSettings, imports>>

\* The key query for the user was answered in time: the waiting call
\* returns the fresh data.
Inner_lookup_answered ==
    /\ lookup.pc = "waiting"
    /\ ~Inner_is_stale(lookup.user)
    /\ lookup' = [lookup EXCEPT !.pc = "done", !.data = "fresh", !.waited = "answered"]
    /\ UNCHANGED <<ledger, nextTxn, tracked, roomKeys, backup, acked, received, bridge,
                   secrets, sinks, sessions, outbound, exported, roomSettings, last, imports>>

\* The timeout passed: the waiting call returns what is known.
Inner_lookup_timeout ==
    /\ lookup.pc = "waiting"
    /\ lookup' = [lookup EXCEPT !.pc = "done", !.data = Inner_best_known(lookup.user),
                                !.waited = "timed_out"]
    /\ UNCHANGED <<ledger, nextTxn, tracked, roomKeys, backup, acked, received, bridge,
                   secrets, sinks, sessions, outbound, exported, roomSettings, last, imports>>

\* ------------------------------------------------------------ room settings

\* A JavaScript number (f64): (2^exp - less1 + half/2), negated if neg.
\* less1 is only used where 2^exp - 1 is a value of its own (exp 0, 32, 64).
Number(neg, exp, less1, half) == [neg |-> neg, exp |-> exp, less1 |-> less1, half |-> half]

Zero == Number(FALSE, 0, TRUE, FALSE)

One == Number(FALSE, 0, FALSE, FALSE)

\* The bits of usize on wasm32, and of u64.
UsizeBits == 32

U64Bits == 64

\* The bits of precision of an f64.
F64Precision == 53

\* The largest value of an unsigned integer type of the given width.
UnsignedMax(bits) == Number(FALSE, bits, TRUE, FALSE)

\* `x as u64` / `x as usize` of an f64: the fraction is dropped, and the
\* value saturates at 0 and at the largest value of the type.
f64_as_unsigned(x, bits) ==
    IF x.neg THEN Zero
    ELSE IF x.exp > bits \/ (x.exp = bits /\ ~x.less1) THEN UnsignedMax(bits)
    ELSE [x EXCEPT !.half = FALSE]

\* `n as f64` of an unsigned integer: rounded to the nearest f64.
unsigned_as_f64(n) ==
    IF n.less1 /\ n.exp > F64Precision THEN [n EXCEPT !.less1 = FALSE] ELSE n

\* Option<f64>: undefined or a number.
NoNumber == [some |-> FALSE, value |-> Zero]

Some(x) == [some |-> TRUE, value |-> x]

\* The values tried for the rotation period in milliseconds.
TriedPeriods ==
    {NoNumber, Some(One), Some(Number(FALSE, U64Bits, FALSE, FALSE)),
     Some(Number(FALSE, U64Bits + 1, FALSE, FALSE)),
     Some(Number(FALSE, 0, FALSE, TRUE)), Some(Number(TRUE, 0, FALSE, FALSE))}

\* The values tried for the rotation period in messages.
TriedCounts ==
    {NoNumber, Some(One), Some(UnsignedMax(UsizeBits)),
     Some(Number(FALSE, UsizeBits, FALSE, FALSE))}

\* A number is whole and not negative.
IsWhole(x) == ~x.neg /\ ~x.half

EncryptionAlgorithms == {"OlmV1Curve25519AesSha2", "MegolmV1AesSha2"}

\* EncryptionAlgorithm into EventEncryptionAlgorithm, and back.
EncryptionAlgorithm_into(algorithm) ==
    IF algorithm = "MegolmV1AesSha2" THEN "m.megolm.v1.aes-sha2"
    ELSE "m.olm.v1.curve25519-aes-sha2"

EncryptionAlgorithm_from(algorithm) ==
    IF algorithm = "m.megolm.v1.aes-sha2" THEN "MegolmV1AesSha2"
    ELSE "OlmV1Curve25519AesSha2"

\* impl From<&RoomSettings> for matrix_sdk_crypto::store::types::RoomSettings.
RoomSettings_into(value) ==
    [algorithm |-> EncryptionAlgorithm_into(value.algorithm),
     only_allow_trusted_devices |-> value.only_allow_trusted_devices,
     session_rotation_period |->
         IF value.session_rotation_period_ms.some
         THEN Some(f64_as_unsigned(value.session_rotation_period_ms.value, U64Bits))
         ELSE NoNumber,
     session_rotation_period_messages |->
         IF value.session_rotation_period_messages.some
         THEN Some(f64_as_unsigned(value.session_rotation_period_messages.value, UsizeBits))
         ELSE NoNumber]

\* A conversion that gives the period in milliseconds for both rotation values.
RoomSettings_from_PeriodTwice(value) ==
    [algorithm |-> EncryptionAlgorithm_from(value.algorithm),
     only_allow_trusted_devices |-> value.only_allow_trusted_devices,
     session_rotation_period_ms |->
         IF value.session_rotation_period.some
         THEN Some(unsigned_as_f64(value.session_rotation_period.value))
         ELSE NoNumber,
     session_rotation_period_messages |->
         IF value.session_rotation_period.some
         THEN Some(unsigned_as_f64(value.session_rotation_period.value))
         ELSE NoNumber]

\* impl From<matrix_sdk_crypto::store::types::RoomSettings> for RoomSettings.
RoomSettings_from(value) ==
    [algorithm |-> EncryptionAlgorithm_from(value.algorithm),
     only_allow_trusted_devices |-> value.only_allow_trusted_devices,
     session_rotation_period_ms |->
         IF value.session_rotation_period.some
         THEN Some(unsigned_as_f64(value.session_rotation_period.value))
         ELSE NoNumber,
     session_rotation_period_messages |->
         IF value.session_rotation_period_messages.some
         THEN Some(unsigned_as_f64(value.session_rotation_period_messages.value))
         ELSE NoNumber]

\* impl Default for RoomSettings.
RoomSettings_default ==
    [algorithm |-> "MegolmV1AesSha2", only_allow_trusted_devices |-> FALSE,
     session_rotation_period_ms |-> NoNumber,
     session_rotation_period_messages |-> NoNumber]

\* No settings are stored for the room.
NoRoomSettings == [some |-> FALSE, value |-> RoomSettings_into(RoomSettings_default)]

\* The settings tried: every algorithm and trust flag without rotation
\* values, and the default with every pair of rotation values.
TriedRoomSettings ==
    {[RoomSettings_default EXCEPT !.algorithm = a, !.only_allow_trusted_devices = t] :
        a \in EncryptionAlgorithms, t \in BOOLEAN}
    \cup {[RoomSettings_default EXCEPT !.session_rotation_period_ms = ms,
                                       !.session_rotation_period_messages = n] :
             ms \in TriedPeriods, n \in TriedCounts}

\* The new settings are "a downgrade in encryption security" from the old.
\* A check that lets the trust requirement be dropped.
Inner_is_downgrade_AlgorithmOnly(old, new) == old.algorithm # new.algorithm

Inner_is_downgrade(old, new) ==
    \/ old.algorithm # new.algorithm
    \/ old.only_allow_trusted_devices /\ ~new.only_allow_trusted_devices

\* setRoomSettings(room_id, room_settings): the settings are converted and
\* handed to the machine, which stores them unless they are a downgrade;
\* `me.set_room_settings(..).await?` rejects the promise then.
SetRoomSettings(room_id, room_settings) ==
    LET new      == RoomSettings_into(room_settings)
        old      == roomSettings[room_id]
        rejected == old.some /\ Inner_is_downgrade(old.value, new)
    IN  /\ roomSettings' = IF rejected THEN roomSettings
                       ELSE [roomSettings EXCEPT ![room_id] = [some |-> TRUE, value |-> new]]
        /\ last' = [op |-> "setRoomSettings", room |-> room_id,
                    settings |-> room_settings, ok |-> ~rejected]
        /\ UNCHANGED <<ledger, nextTxn, tracked, roomKeys, backup, acked, received, bridge,
                       secrets, sinks, sessions, outbound, exported, lookup, imports>>

\* getRoomSettings(room_id): `result.map(RoomSettings::from)`, undefined if
\* nothing is stored.
GetRoomSettings(room_id) ==
    /\ last' = [op |-> "getRoomSettings", room |-> room_id,
                defined |-> roomSettings[room_id].some,
                result |-> RoomSettings_from(roomSettings[room_id].value)]
    /\ UNCHANGED <<ledger, nextTxn, tracked, roomKeys, backup, acked, received, bridge,
                   secrets, sinks, sessions, outbound, exported, roomSettings, lookup, imports>>

\* ------------------------------------------------- stream to callback bridge

\* The job of copy_stream_to_callback before a callback is registered.
\* `yielded` counts the items the stream has yielded, `feed` holds those not
\* yet taken by the job, `calls` the calls of the callback made so far, `pc`
\* is where the job is: "next" (at stream.next()), "await" (at the promise
\* the callback returned) or "panicked"; `warnings` counts the warn! lines.
\* `futures` counts the futures of exported calls that future_to_promise
\* spawned and that have not completed, each holding a clone of `inner`;
\* `closed` is whether close() was called, and `closedAt` the number of items
\* the stream had yielded by then.
NoBridge ==
    [registered |-> FALSE, yielded |-> 0, feed |-> <<>>, calls |-> <<>>,
     pc |-> "next", warnings |-> 0, futures |-> 0, closed |-> FALSE, closedAt |-> 0]

\* What the stream yields: room key updates, or an error of the stream.
StreamItems == {"Ok", "Err"}

\* What a call of the callback does: it throws, or returns a Promise, or
\* returns something else.
CallResults == {"throws", "promise", "not_promise"}

\* The mapper of registerRoomKeyUpdatedCallback: one array per item, empty
\* for an error of the stream.
RoomKeyMapper(item) == IF item = "Ok" THEN "RoomKeyInfo[]" ELSE "[]"

\* registerRoomKeyUpdatedCallback(callback): subscribes to the stream and
\* spawns the job.
RegisterRoomKeyUpdatedCallback ==
    /\ ~bridge.closed
    /\ ~bridge.registered
    /\ bridge' = [bridge EXCEPT !.registered = TRUE]
    /\ last' = [op |-> "registerRoomKeyUpdatedCallback"]
    /\ UNCHANGED <<ledger, nextTxn, tracked, roomKeys, backup, acked, received, secrets, sinks, sessions, outbound, exported, roomSettings, lookup, imports>>

\* An exported method that stores room keys is called
\* (importExportedRoomKeys): `let me = self.inner.clone()`, and
\* future_to_promise spawns the future that works on `me`.
FutureStart ==
    /\ ~bridge.closed
    /\ bridge.futures < MaxFutures
    /\ bridge' = [bridge EXCEPT !.futures = @ + 1]
    /\ UNCHANGED <<ledger, nextTxn, tracked, roomKeys, backup, acked, received,
                   secrets, sinks, sessions, outbound, last, exported, roomSettings, lookup, imports>>

\* A spawned future completes and its promise settles.
FutureFinish ==
    /\ bridge.futures > 0
    /\ bridge' = [bridge EXCEPT !.futures = @ - 1]
    /\ UNCHANGED <<ledger, nextTxn, tracked, roomKeys, backup, acked, received,
                   secrets, sinks, sessions, outbound, last, exported, roomSettings, lookup, imports>>

\* close(self) {}: the wrapper and its handle of `inner` are dropped; the
\* spawned futures and jobs are not touched.
Close ==
    /\ ~bridge.closed
    /\ bridge' = [bridge EXCEPT !.closed = TRUE, !.closedAt = bridge.yielded]
    /\ last' = [op |-> "close"]
    /\ UNCHANGED <<ledger, nextTxn, tracked, roomKeys, backup, acked, received,
                   secrets, sinks, sessions, outbound, exported, roomSettings, lookup, imports>>

\* The store's stream yields an item to its subscriber: a running future
\* stored room keys.
Inner_stream_yield(item) ==
    /\ bridge.registered
    /\ bridge.futures > 0
    /\ bridge.yielded < MaxItems
    /\ bridge' = [bridge EXCEPT !.yielded = @ + 1,
                                !.feed = Append(@, [n |-> bridge.yielded + 1, item |-> item])]
    /\ UNCHANGED <<ledger, nextTxn, tracked, roomKeys, backup, acked, received, last, secrets, sinks, sessions, outbound, exported, roomSettings, lookup, imports>>

\* A conversion that takes a return value that is not a Promise for a failed
\* call.
promise_result_to_future_Lenient(res) ==
    CASE res = "throws" -> "Err"
      [] res = "not_promise" -> "Err"
      [] res = "promise" -> "JsFuture"

\* promise_result_to_future up to its first await: Err(e) for a callback
\* that threw, a panic for a return value that is not a Promise, otherwise
\* the future of the promise.
promise_result_to_future(res) ==
    CASE res = "throws" -> "Err"
      [] res = "not_promise" -> "panic"
      [] res = "promise" -> "JsFuture"

\* A job that does not wait for the promise of the callback.
BridgeCall_NotAwaiting(res) ==
    /\ bridge.registered
    /\ bridge.pc = "next"
    /\ bridge.feed # <<>>
    /\ LET item == Head(bridge.feed)
           fut  == promise_result_to_future(res)
       IN  bridge' = [bridge EXCEPT
                         !.feed = Tail(@),
                         !.calls = Append(@, [n |-> item.n, value |-> RoomKeyMapper(item.item),
                                              result |-> res]),
                         !.pc = CASE fut = "Err" -> "next"
                                  [] fut = "panic" -> "panicked"
                                  [] fut = "JsFuture" -> "next",
                         !.warnings = IF fut = "Err" THEN @ + 1 ELSE @]
    /\ UNCHANGED <<ledger, nextTxn, tracked, roomKeys, backup, acked, received, last, secrets, sinks, sessions, outbound, exported, roomSettings, lookup, imports>>

\* A job that gives up when the callback fails.
BridgeCall_StoppingOnError(res) ==
    /\ bridge.registered
    /\ bridge.pc = "next"
    /\ bridge.feed # <<>>
    /\ LET item == Head(bridge.feed)
           fut  == promise_result_to_future(res)
       IN  bridge' = [bridge EXCEPT
                         !.feed = Tail(@),
                         !.calls = Append(@, [n |-> item.n, value |-> RoomKeyMapper(item.item),
                                              result |-> res]),
                         !.pc = CASE fut = "Err" -> "panicked"
                                  [] fut = "panic" -> "panicked"
                                  [] fut = "JsFuture" -> "await",
                         !.warnings = IF fut = "Err" THEN @ + 1 ELSE @]
    /\ UNCHANGED <<ledger, nextTxn, tracked, roomKeys, backup, acked, received, last, secrets, sinks, sessions, outbound, exported, roomSettings, lookup, imports>>

\* A job that takes the newest item of the stream first.
BridgeCall_NewestFirst(res) ==
    /\ bridge.registered
    /\ bridge.pc = "next"
    /\ bridge.feed # <<>>
    /\ LET item == bridge.feed[Len(bridge.feed)]
           fut  == promise_result_to_future(res)
       IN  bridge' = [bridge EXCEPT
                         !.feed = SubSeq(@, 1, Len(@) - 1),
                         !.calls = Append(@, [n |-> item.n, value |-> RoomKeyMapper(item.item),
                                              result |-> res]),
                         !.pc = CASE fut = "Err" -> "next"
                                  [] fut = "panic" -> "panicked"
                                  [] fut = "JsFuture" -> "await",
                         !.warnings = IF fut = "Err" THEN @ + 1 ELSE @]
    /\ UNCHANGED <<ledger, nextTxn, tracked, roomKeys, backup, acked, received, last, secrets, sinks, sessions, outbound, exported, roomSettings, lookup, imports>>

\* The job takes the next item of the stream, maps it and calls the callback.
BridgeCall(res) ==
    /\ bridge.registered
    /\ bridge.pc = "next"
    /\ bridge.feed # <<>>
    /\ LET item == Head(bridge.feed)
           fut  == promise_result_to_future(res)
       IN  bridge' = [bridge EXCEPT
                         !.feed = Tail(@),
                         !.calls = Append(@, [n |-> item.n, value |-> RoomKeyMapper(item.item),
                                              result |-> res]),
                         !.pc = CASE fut = "Err" -> "next"
                                  [] fut = "panic" -> "panicked"
                                  [] fut = "JsFuture" -> "await",
                         !.warnings = IF fut = "Err" THEN @ + 1 ELSE @]
    /\ UNCHANGED <<ledger, nextTxn, tracked, roomKeys, backup, acked, received, last, secrets, sinks, sessions, outbound, exported, roomSettings, lookup, imports>>

\* The promise the callback returned settles: the job logs a rejection and
\* goes on to the next item.
BridgeSettle(rejected) ==
    /\ bridge.pc = "await"
    /\ bridge' = [bridge EXCEPT
                     !.calls[Len(bridge.calls)].result = IF rejected THEN "rejected"
                                                         ELSE "resolved",
                     !.pc = "next",
                     !.warnings = IF rejected THEN @ + 1 ELSE @]
    /\ UNCHANGED <<ledger, nextTxn, tracked, roomKeys, backup, acked, received, last, secrets, sinks, sessions, outbound, exported, roomSettings, lookup, imports>>

\* ---------------------------------------------------------- key distribution

\* The pairs of the given users that lack a 1:1 Olm session.
Inner_missing_sessions(users) == {p \in Pairs : p.user \in users} \ sessions

\* A getMissingSessions that claims keys for every device of the users.
GetMissingSessions_ClaimingAll(users) ==
    LET missing == {p \in Pairs : p.user \in users}
        some    == missing # {}
    IN  /\ some => nextTxn <= MaxTxn
        /\ ledger' = IF some THEN Inner_enqueue(ledger, nextTxn, "KeysClaim", missing, {})
                     ELSE ledger
        /\ nextTxn' = IF some THEN nextTxn + 1 ELSE nextTxn
        /\ last' = [op |-> "getMissingSessions", users |-> users,
                    result |-> IF some THEN "KeysClaimRequest" ELSE "null",
                    request |-> IF some THEN nextTxn ELSE 0]
        /\ UNCHANGED <<tracked, roomKeys, backup, acked, received, bridge,
                       secrets, sinks, sessions, outbound, exported, roomSettings, lookup, imports>>

\* A getMissingSessions that leaves out the pairs a pending claim covers.
GetMissingSessions_SkippingPending(users) ==
    LET claimed == UNION {ledger[t].users :
                             t \in {x \in DOMAIN ledger : ledger[x].kind = "KeysClaim"}}
        missing == Inner_missing_sessions(users) \ claimed
        some    == missing # {}
    IN  /\ some => nextTxn <= MaxTxn
        /\ ledger' = IF some THEN Inner_enqueue(ledger, nextTxn, "KeysClaim", missing, {})
                     ELSE ledger
        /\ nextTxn' = IF some THEN nextTxn + 1 ELSE nextTxn
        /\ last' = [op |-> "getMissingSessions", users |-> users,
                    result |-> IF some THEN "KeysClaimRequest" ELSE "null",
                    request |-> IF some THEN nextTxn ELSE 0]
        /\ UNCHANGED <<tracked, roomKeys, backup, acked, received, bridge,
                       secrets, sinks, sessions, outbound, exported, roomSettings, lookup, imports>>

\* getMissingSessions(users): Some((transaction_id, keys_claim_request))
\* becomes a KeysClaimRequest, None becomes null.
GetMissingSessions(users) ==
    LET missing == Inner_missing_sessions(users)
        some    == missing # {}
    IN  /\ some => nextTxn <= MaxTxn
        /\ ledger' = IF some THEN Inner_enqueue(ledger, nextTxn, "KeysClaim", missing, {})
                     ELSE ledger
        /\ nextTxn' = IF some THEN nextTxn + 1 ELSE nextTxn
        /\ last' = [op |-> "getMissingSessions", users |-> users,
                    result |-> IF some THEN "KeysClaimRequest" ELSE "null",
                    request |-> IF some THEN nextTxn ELSE 0]
        /\ UNCHANGED <<tracked, roomKeys, backup, acked, received, bridge,
                       secrets, sinks, sessions, outbound, exported, roomSettings, lookup, imports>>

\* EncryptionSettings, as far as sharing goes: whether only trusted devices
\* receive room keys, and the rotation period in messages.
EncryptionSettings ==
    {[only_allow_trusted_devices |-> t, rotation_period_messages |-> m] :
        t \in BOOLEAN, m \in 1..2}

\* The devices that are to hold the room key: those of the members, without
\* the unverified ones if only trusted devices are allowed.
Inner_recipients(users, settings) ==
    {p \in Pairs : /\ p.user \in users
                   /\ settings.only_allow_trusted_devices => p \in VerifiedPairs}

\* The outbound session has reached its rotation period, in messages or time.
Inner_expired(session) == session.messages >= session.max_messages \/ session.old

\* The devices that were sent the given session: those it is shared with and
\* those of the pending to-device requests that carry it.
Inner_holders(session) ==
    session.shared \cup
        UNION {ledger[t].users :
                  t \in {x \in DOMAIN ledger :
                            /\ ledger[x].kind = "ToDevice"
                            /\ ledger[x].keys = {SessionName(session.id)}}}

\* Whether room-key sharing makes a new outbound session.
\* A rule that rotates whenever the recipients differ from the holders.
Inner_should_rotate_OnAnyChange(recipients) ==
    \/ outbound.id = 0
    \/ Inner_expired(outbound)
    \/ Inner_holders(outbound) # recipients \cap Inner_holders(outbound)
    \/ (Inner_holders(outbound) # {} /\ recipients \ Inner_holders(outbound) # {})

Inner_should_rotate(recipients) ==
    \/ outbound.id = 0
    \/ Inner_expired(outbound)
    \/ Inner_holders(outbound) \ recipients # {}

\* A shareRoomKey that sends the room key to every recipient again.
ShareRoomKey_ToAll(users, settings) ==
    LET recipients == Inner_recipients(users, settings)
        rotate  == Inner_should_rotate(recipients)
        session == IF rotate
                   THEN [id |-> outbound.id + 1, shared |-> {}, messages |-> 0,
                         max_messages |-> settings.rotation_period_messages,
                         old |-> FALSE]
                   ELSE outbound
        to      == recipients \cap sessions
        some    == to # {}
    IN  /\ rotate => outbound.id < MaxSessions
        /\ some => nextTxn <= MaxTxn
        /\ outbound' = session
        /\ ledger' = IF some
                     THEN Inner_enqueue(ledger, nextTxn, "ToDevice", to,
                                        {SessionName(session.id)})
                     ELSE ledger
        /\ nextTxn' = IF some THEN nextTxn + 1 ELSE nextTxn
        /\ last' = [op |-> "shareRoomKey", users |-> users, settings |-> settings,
                    before |-> outbound.id, session |-> session.id,
                    requests |-> IF some THEN {nextTxn} ELSE {}, to |-> to]
        /\ UNCHANGED <<tracked, roomKeys, backup, acked, received, bridge,
                       secrets, sinks, sessions, exported, roomSettings, lookup, imports>>

\* shareRoomKey(room_id, users, encryption_settings): the to-device requests
\* that carry the room key of the (possibly new) outbound session to the
\* recipients that we have an Olm session with and that do not hold it yet.
ShareRoomKey(users, settings) ==
    LET recipients == Inner_recipients(users, settings)
        rotate  == Inner_should_rotate(recipients)
        session == IF rotate
                   THEN [id |-> outbound.id + 1, shared |-> {}, messages |-> 0,
                         max_messages |-> settings.rotation_period_messages,
                         old |-> FALSE]
                   ELSE outbound
        to      == (recipients \cap sessions) \ session.shared
        some    == to # {}
    IN  /\ rotate => outbound.id < MaxSessions
        /\ some => nextTxn <= MaxTxn
        /\ outbound' = session
        /\ ledger' = IF some
                     THEN Inner_enqueue(ledger, nextTxn, "ToDevice", to,
                                        {SessionName(session.id)})
                     ELSE ledger
        /\ nextTxn' = IF some THEN nextTxn + 1 ELSE nextTxn
        /\ last' = [op |-> "shareRoomKey", users |-> users, settings |-> settings,
                    before |-> outbound.id, session |-> session.id,
                    requests |-> IF some THEN {nextTxn} ELSE {}, to |-> to]
        /\ UNCHANGED <<tracked, roomKeys, backup, acked, received, bridge,
                       secrets, sinks, sessions, exported, roomSettings, lookup, imports>>

\* encryptRoomEvent(room_id, event_type, content), for content that parses:
\* one more message is encrypted with the outbound session.  It "panics if a
\* group session for the given room wasn't shared beforehand".
EncryptRoomEvent ==
    /\ outbound.id # 0
    /\ ~Inner_expired(outbound)
    /\ outbound' = [outbound EXCEPT !.messages = @ + 1]
    /\ last' = [op |-> "encryptRoomEvent"]
    /\ UNCHANGED <<ledger, nextTxn, tracked, roomKeys, backup, acked, received, bridge,
                   secrets, sinks, sessions, exported, roomSettings, lookup, imports>>

\* invalidateGroupSession(room_id): true if a session was invalidated, false
\* if there was none.
InvalidateGroupSession ==
    /\ outbound' = IF outbound.id = 0 THEN outbound ELSE [outbound EXCEPT !.old = TRUE]
    /\ last' = [op |-> "invalidateGroupSession", result |-> outbound.id # 0]
    /\ UNCHANGED <<ledger, nextTxn, tracked, roomKeys, backup, acked, received, bridge,
                   secrets, sinks, sessions, exported, roomSettings, lookup, imports>>

\* Time passes: the outbound session reaches its rotation period.
Inner_rotation_period_elapses ==
    /\ outbound.id # 0
    /\ ~outbound.old
    /\ outbound' = [outbound EXCEPT !.old = TRUE]
    /\ UNCHANGED <<ledger, nextTxn, tracked, roomKeys, backup, acked, received, bridge,
                   secrets, sinks, sessions, last, exported, roomSettings, lookup, imports>>

\* ------------------------------------------------------------- secret inbox

\* registerReceiveSecretCallback(callback): subscribes to the secrets stream
\* and spawns a job of its own for this callback.
RegisterReceiveSecretCallback(cb) ==
    /\ ~sinks[cb].registered
    /\ sinks' = [sinks EXCEPT ![cb].registered = TRUE]
    /\ last' = [op |-> "registerReceiveSecretCallback", callback |-> cb]
    /\ UNCHANGED <<ledger, nextTxn, tracked, roomKeys, backup, acked, received, bridge,
                   secrets, sessions, outbound, exported, roomSettings, lookup, imports>>

\* A single job that serves the callbacks in turn: it calls a callback only
\* when no promise of another callback is awaited.
SinkCall_Shared(cb, res) ==
    /\ sinks[cb].registered
    /\ sinks[cb].pc = "next"
    /\ sinks[cb].feed # <<>>
    /\ \A other \in SinkIds \ {cb} : sinks[other].pc # "await"
    /\ LET secret == Head(sinks[cb].feed)
           fut    == promise_result_to_future(res)
       IN  sinks' = [sinks EXCEPT
                        ![cb].feed = Tail(@),
                        ![cb].calls = Append(@, [secret_name |-> secret.secret_name,
                                                 value |-> secret.event.secret.value,
                                                 gossip |-> secret, result |-> res]),
                        ![cb].pc = CASE fut = "Err" -> "next"
                                     [] fut = "panic" -> "panicked"
                                     [] fut = "JsFuture" -> "await",
                        ![cb].warnings = IF fut = "Err" THEN @ + 1 ELSE @]
    /\ UNCHANGED <<ledger, nextTxn, tracked, roomKeys, backup, acked, received, bridge,
                   secrets, sessions, outbound, last, exported, roomSettings, lookup, imports>>

\* The job of a callback takes the next secret of its stream and calls the
\* callback with the secret's name and value (send_secret_gossip_to_callback).
SinkCall(cb, res) ==
    /\ sinks[cb].registered
    /\ sinks[cb].pc = "next"
    /\ sinks[cb].feed # <<>>
    /\ LET secret == Head(sinks[cb].feed)
           fut    == promise_result_to_future(res)
       IN  sinks' = [sinks EXCEPT
                        ![cb].feed = Tail(@),
                        ![cb].calls = Append(@, [secret_name |-> secret.secret_name,
                                                 value |-> secret.event.secret.value,
                                                 gossip |-> secret, result |-> res]),
                        ![cb].pc = CASE fut = "Err" -> "next"
                                     [] fut = "panic" -> "panicked"
                                     [] fut = "JsFuture" -> "await",
                        ![cb].warnings = IF fut = "Err" THEN @ + 1 ELSE @]
    /\ UNCHANGED <<ledger, nextTxn, tracked, roomKeys, backup, acked, received, bridge,
                   secrets, sessions, outbound, last, exported, roomSettings, lookup, imports>>

\* The promise the callback returned settles: a rejection is logged, and the
\* job goes on to the next secret.
SinkSettle(cb, rejected) ==
    /\ sinks[cb].pc = "await"
    /\ sinks' = [sinks EXCEPT
                    ![cb].calls[Len(sinks[cb].calls)].result =
                        IF rejected THEN "rejected" ELSE "resolved",
                    ![cb].pc = "next",
                    ![cb].warnings = IF rejected THEN @ + 1 ELSE @]
    /\ UNCHANGED <<ledger, nextTxn, tracked, roomKeys, backup, acked, received, bridge,
                   secrets, sessions, outbound, last, exported, roomSettings, lookup, imports>>

\* The store's inbox entries of a name.
Inner_get_secrets_from_inbox(name) == {g \in secrets.inbox : g.secret_name = name}

\* A getSecretsFromInbox that takes the secrets it returns out of the inbox.
GetSecretsFromInbox_Draining(secret_name) ==
    /\ last' = [op |-> "getSecretsFromInbox", name |-> secret_name,
                result |-> {g.event.secret.value :
                               g \in Inner_get_secrets_from_inbox(secret_name)}]
    /\ secrets' = [secrets EXCEPT !.inbox = @ \ Inner_get_secrets_from_inbox(secret_name)]
    /\ UNCHANGED <<ledger, nextTxn, tracked, roomKeys, backup, acked, received, bridge,
                   sinks, sessions, outbound, exported, roomSettings, lookup, imports>>

\* getSecretsFromInbox(secret_name): a Set of the values
\* (gossip.event.content.secret) of the inbox entries of that name.
GetSecretsFromInbox(secret_name) ==
    /\ last' = [op |-> "getSecretsFromInbox", name |-> secret_name,
                result |-> {g.event.secret.value :
                               g \in Inner_get_secrets_from_inbox(secret_name)}]
    /\ UNCHANGED <<ledger, nextTxn, tracked, roomKeys, backup, acked, received, bridge,
                   secrets, sinks, sessions, outbound, exported, roomSettings, lookup, imports>>

\* deleteSecretsFromInbox(secret_name): "Delete all secrets with the given
\* secret name from the inbox."
DeleteSecretsFromInbox(secret_name) ==
    /\ secrets' = [secrets EXCEPT !.inbox = @ \ Inner_get_secrets_from_inbox(secret_name)]
    /\ last' = [op |-> "deleteSecretsFromInbox", name |-> secret_name]
    /\ UNCHANGED <<ledger, nextTxn, tracked, roomKeys, backup, acked, received, bridge,
                   sinks, sessions, outbound, exported, roomSettings, lookup, imports>>

\* saveBackupDecryptionKey(decryption_key, version): the key is stored.
SaveBackupDecryptionKey ==
    /\ secrets' = [secrets EXCEPT !.held = @ \cup {"m.megolm_backup.v1"}]
    /\ last' = [op |-> "saveBackupDecryptionKey"]
    /\ UNCHANGED <<ledger, nextTxn, tracked, roomKeys, backup, acked, received, bridge,
                   sinks, sessions, outbound, exported, roomSettings, lookup, imports>>

\* importCrossSigningKeys(master_key, self_signing_key, user_signing_key),
\* with the three keys given.
ImportCrossSigningKeys ==
    /\ secrets' = [secrets EXCEPT !.held = @ \cup {"m.cross_signing.master"}]
    /\ last' = [op |-> "importCrossSigningKeys"]
    /\ UNCHANGED <<ledger, nextTxn, tracked, roomKeys, backup, acked, received, bridge,
                   sinks, sessions, outbound, exported, roomSettings, lookup, imports>>

\* The local secrets we should hold and do not.
Inner_missing_secrets == SecretNames \ secrets.held

\* The secrets that a pending secret request asks for.
Inner_requested_secrets ==
    UNION {ledger[t].keys \cap SecretNames :
              t \in {x \in DOMAIN ledger : ledger[x].kind = "ToDevice"}}

\* A request for every missing secret, requested already or not.
RequestMissingSecretsIfNeeded_Rerequesting ==
    LET missing == Inner_missing_secrets
        some    == missing # {}
    IN  /\ some => nextTxn <= MaxTxn
        /\ ledger' = IF some THEN Inner_enqueue(ledger, nextTxn, "ToDevice", {}, missing)
                     ELSE ledger
        /\ nextTxn' = IF some THEN nextTxn + 1 ELSE nextTxn
        /\ last' = [op |-> "requestMissingSecretsIfNeeded", result |-> some,
                    missing |-> missing, request |-> IF some THEN nextTxn ELSE 0]
        /\ UNCHANGED <<tracked, roomKeys, backup, acked, received, bridge,
                       secrets, sinks, sessions, outbound, exported, roomSettings, lookup, imports>>

\* requestMissingSecretsIfNeeded(): the result of the machine's
\* query_missing_secrets_from_other_sessions, "true if secrets were missing,
\* and a request was generated": a request (m.secret.request) is made for the
\* missing secrets that no pending request asks for.
RequestMissingSecretsIfNeeded ==
    LET missing == Inner_missing_secrets
        new     == missing \ Inner_requested_secrets
        some    == new # {}
    IN  /\ some => nextTxn <= MaxTxn
        /\ ledger' = IF some THEN Inner_enqueue(ledger, nextTxn, "ToDevice", {}, new)
                     ELSE ledger
        /\ nextTxn' = IF some THEN nextTxn + 1 ELSE nextTxn
        /\ last' = [op |-> "requestMissingSecretsIfNeeded", result |-> some,
                    missing |-> missing, request |-> IF some THEN nextTxn ELSE 0]
        /\ UNCHANGED <<tracked, roomKeys, backup, acked, received, bridge,
                       secrets, sinks, sessions, outbound, exported, roomSettings, lookup, imports>>

\* ----------------------------------------------------------- specifications

Init ==
    /\ ledger = <<>>
    /\ nextTxn = 1
    /\ tracked = [u \in Users |-> "untracked"]
    /\ roomKeys = [k \in KeyIds |-> NoKey]
    /\ backup = "Disabled"
    /\ acked = {}
    /\ received = {}
    /\ bridge = NoBridge
    /\ secrets = NoSecrets
    /\ sinks = NoSinks
    /\ sessions = {}
    /\ outbound = NoOutbound
    /\ exported = NoExport
    /\ roomSettings = [r \in Rooms |-> NoRoomSettings]
    /\ lookup = NoLookup
    /\ imports = [t \in Tasks |-> NoImport]
    /\ last = [op |-> "initialize"]

\* The request ledger and everything that adds to it or removes from it.
Next ==
    \/ \E users \in SUBSET Users : UpdateTrackedUsers(users)
    \/ OutgoingRequests
    \/ \E id \in TxnIds, type \in TriedTypes, body \in ResponseBodies :
           MarkRequestAsSent(id, type, body)
    \/ \E key_ok \in BOOLEAN, version \in BackupVersions : EnableBackupV1(key_ok, version)
    \/ DisableBackup
    \/ BackupRoomKeys
    \/ \E changed \in SUBSET Users, left \in SUBSET Users :
           ReceiveSyncChanges(TRUE, <<>>, changed, left)
    \/ \E id \in KeyIds : ImportExportedRoomKeys(TRUE, <<[id |-> id, index |-> 0]>>)

Spec == Init /\ [][Next]_vars

\* Sync ingestion: batches of to-device payloads.
NextSync ==
    \/ \E users \in SUBSET Users : UpdateTrackedUsers(users)
    \/ \E json_ok \in BOOLEAN, changed \in {{}, Users} :
           \E events \in IF json_ok THEN Batches(MaxBatch) ELSE {<<>>} :
               ReceiveSyncChanges(json_ok, events, changed, {})

SpecSync == Init /\ [][NextSync]_vars

\* Room key import from an export, a backup and a bundle.
NextImport ==
    \/ \E json_ok \in BOOLEAN :
           \E keys \in IF json_ok THEN CandidateLists(MaxImport) ELSE {<<>>} :
               ImportExportedRoomKeys(json_ok, keys)
    \/ \E entries \in BackupEntryLists(MaxImport), version \in BackupVersions :
           ImportBackedUpRoomKeys(entries, version)
    \/ \E b \in {p \in BundlePayloads : p.bundle = [room |-> "r1", inviter |-> "u1"]} :
           ReceiveSyncChanges(TRUE, <<b>>, {}, {})
    \/ \E bundle_data \in received, bundle_ok \in BOOLEAN :
           \E keys \in IF bundle_ok THEN BundleKeyLists(bundle_data.room, MaxImport)
                        ELSE {<<>>} :
               ReceiveRoomKeyBundle(bundle_data, bundle_ok, keys)
    \/ EnableBackupV1(TRUE, "v1")
    \/ BackupRoomKeys
    \/ \E id \in TxnIds : MarkRequestAsSent(id, "KeysBackup", "complete")

SpecImport == Init /\ [][NextImport]_vars

\* The backup pipeline: keys enter by import, are selected, uploaded and
\* acknowledged; the backup is enabled, verified, queried and disabled.
NextBackup ==
    \/ \E id \in KeyIds : ImportExportedRoomKeys(TRUE, <<[id |-> id, index |-> 0]>>)
    \/ \E key_ok \in BOOLEAN, version \in BackupVersions : EnableBackupV1(key_ok, version)
    \/ \E info_ok \in BOOLEAN, trusted \in BOOLEAN : VerifyBackup(info_ok, trusted)
    \/ IsBackupEnabled
    \/ DisableBackup
    \/ BackupRoomKeys
    \/ RoomKeyCounts
    \/ OutgoingRequests
    \/ \E id \in TxnIds, body \in ResponseBodies : MarkRequestAsSent(id, "KeysBackup", body)

SpecBackup == Init /\ [][NextBackup]_vars

\* Room key bundles: built from the keys held, announced by a to-device
\* payload, looked up, and imported.
NextBundle ==
    \/ \E id \in KeyIds, index \in 0..1 :
           ImportExportedRoomKeys(TRUE, <<[id |-> id, index |-> index]>>)
    \/ \E room_id \in Rooms : BuildRoomKeyBundle(room_id)
    \/ \E events \in UNION {[1..k -> BundlePayloads] : k \in 1..MaxBatch} :
           ReceiveSyncChanges(TRUE, events, {}, {})
    \/ \E room_id \in Rooms, inviter \in Users :
           GetReceivedRoomKeyBundleData(room_id, inviter)
    \/ \E bundle_data \in BundleData, bundle_ok \in BOOLEAN :
           \E keys \in IF bundle_ok THEN BundleKeyLists(bundle_data.room, MaxImport)
                        ELSE {<<>>} :
               ReceiveRoomKeyBundle(bundle_data, bundle_ok, keys)

SpecBundle == Init /\ [][NextBundle]_vars

\* The m.secret.send payloads tried: every accepted one, and for one secret
\* every way of not being accepted (the sender, the event's classification).
TriedSecretPayloads ==
    {p \in SecretPayloads :
        \/ Inner_accepts_secret(p)
        \/ /\ p.secret = [name |-> "m.megolm_backup.v1", value |-> "x"]
           /\ \/ p.sender = "own_verified"
              \/ p.decrypt = "OlmV1Curve25519AesSha2"}

\* The secret inbox: secrets arrive in to-device payloads, are read and
\* deleted by name, and are passed to a callback.
NextSecrets ==
    \/ \E p \in TriedSecretPayloads :
           /\ \A s \in SinkIds : Len(sinks[s].calls) + Len(sinks[s].feed) < MaxSecrets
           /\ ReceiveSyncChanges(TRUE, <<p>>, {}, {})
    \/ \E name \in SecretNames : GetSecretsFromInbox(name)
    \/ \E name \in SecretNames : DeleteSecretsFromInbox(name)
    \/ RegisterReceiveSecretCallback("cb1")
    \/ \E res \in {"throws", "promise"} : SinkCall("cb1", res)
    \/ \E rejected \in BOOLEAN : SinkSettle("cb1", rejected)

SpecSecrets == Init /\ [][NextSecrets]_vars

\* Secret requests: the local secrets are stored, received or missing, and
\* the missing ones are requested from the user's other devices.
NextSecretRequests ==
    \/ \E p \in {q \in SecretPayloads : Inner_accepts_secret(q) /\ q.secret.value = "x"} :
           ReceiveSyncChanges(TRUE, <<p>>, {}, {})
    \/ RequestMissingSecretsIfNeeded
    \/ SaveBackupDecryptionKey
    \/ ImportCrossSigningKeys
    \/ OutgoingRequests
    \/ \E id \in TxnIds : MarkRequestAsSent(id, "ToDevice", "complete")

SpecSecretRequests == Init /\ [][NextSecretRequests]_vars

\* Two callbacks registered on the secrets stream, each with its job.
NextSinks ==
    \/ \E cb \in SinkIds : RegisterReceiveSecretCallback(cb)
    \/ \E p \in {q \in SecretPayloads : Inner_accepts_secret(q) /\ IsBroadcast(GossippedSecret(q))} :
           /\ \A s \in SinkIds : Len(sinks[s].calls) + Len(sinks[s].feed) < MaxSecrets
           /\ ReceiveSyncChanges(TRUE, <<p>>, {}, {})
    \/ \E cb \in SinkIds, res \in {"throws", "promise"} : SinkCall(cb, res)
    \/ \E cb \in SinkIds, rejected \in BOOLEAN : SinkSettle(cb, rejected)

SpecSinks == Init /\ [][NextSinks]_vars

\* The job of callback cb2 runs whenever its stream has a secret for it, and
\* the promises of cb2 settle; nothing is assumed of callback cb1, which may
\* be slow or return a promise that never settles.
FairSpecSinks ==
    /\ SpecSinks
    /\ WF_vars(\E res \in {"throws", "promise"} : SinkCall("cb2", res))
    /\ WF_vars(\E rejected \in BOOLEAN : SinkSettle("cb2", rejected))

\* A machine opened on a store that holds the devices of the users and,
\* possibly, Olm sessions with all of them.
InitKeys ==
    /\ ledger = <<>>
    /\ nextTxn = 1
    /\ tracked = [u \in Users |-> "clean"]
    /\ roomKeys = [k \in KeyIds |-> NoKey]
    /\ backup = "Disabled"
    /\ acked = {}
    /\ received = {}
    /\ bridge = NoBridge
    /\ secrets = NoSecrets
    /\ sinks = NoSinks
    /\ sessions \in {{}, Pairs}
    /\ outbound = NoOutbound
    /\ exported = NoExport
    /\ roomSettings = [r \in Rooms |-> NoRoomSettings]
    /\ lookup = NoLookup
    /\ imports = [t \in Tasks |-> NoImport]
    /\ last = [op |-> "initialize"]

\* Missing-session discovery: key claims and their acknowledgement.
NextClaim ==
    \/ \E users \in SUBSET Users : GetMissingSessions(users)
    \/ \E id \in TxnIds, body \in ResponseBodies : MarkRequestAsSent(id, "KeysClaim", body)

SpecClaim == Init /\ [][NextClaim]_vars

\* Room-key sharing: sessions are established, the room key is shared,
\* messages are encrypted, time passes.
NextShare ==
    \/ \E users \in {{"u1"}, Users} : GetMissingSessions(users)
    \/ \E id \in TxnIds, type \in {"KeysClaim", "ToDevice"} :
           MarkRequestAsSent(id, type, "complete")
    \/ \E users \in {{"u1"}, Users}, settings \in EncryptionSettings :
           ShareRoomKey(users, settings)
    \/ EncryptRoomEvent
    \/ InvalidateGroupSession
    \/ Inner_rotation_period_elapses

SpecShare == InitKeys /\ [][NextShare]_vars

\* Passphrase-protected export of keys of one session: encrypt, corrupt,
\* decrypt.
NextExport ==
    \/ \E text \in {t \in ExportTexts : \A i \in 1..Len(t.keys) : t.keys[i].id = "k1"} :
           \E passphrase \in Passphrases, rounds \in RoundCounts :
               EncryptExportedRoomKeys(text, passphrase, rounds)
    \/ \E how \in Corruptions : Corrupt(how)
    \/ \E passphrase \in Passphrases : DecryptExportedRoomKeys(passphrase)

SpecExport == Init /\ [][NextExport]_vars

\* Room settings: stored and read back.
NextSettings ==
    \/ \E room_id \in Rooms, room_settings \in TriedRoomSettings :
           SetRoomSettings(room_id, room_settings)
    \/ \E room_id \in Rooms : GetRoomSettings(room_id)

SpecSettings == Init /\ [][NextSettings]_vars

\* Device lookups while device lists become stale and key queries are
\* answered.
NextLookup ==
    \/ \E users \in SUBSET Users : UpdateTrackedUsers(users)
    \/ \E changed \in SUBSET Users : ReceiveSyncChanges(TRUE, <<>>, changed, {})
    \/ \E id \in TxnIds : MarkRequestAsSent(id, "KeysQuery", "complete")
    \/ \E user_id \in Users, timeout_secs \in TimeoutSecs :
           GetUserDevices(user_id, timeout_secs)
    \/ \E user_id \in Users, timeout_secs \in TimeoutSecs :
           GetDevice(user_id, "d1", timeout_secs)
    \/ Inner_lookup_answered
    \/ Inner_lookup_timeout

SpecLookup == Init /\ [][NextLookup]_vars

\* The timer of a waiting call fires.
FairSpecLookup == SpecLookup /\ WF_vars(Inner_lookup_timeout)

\* Room event decryption: every outcome of the machine.
NextDecrypt ==
    \E json_ok \in BOOLEAN, room_id \in Rooms, outcome \in DecryptOutcomes :
        DecryptRoomEvent(json_ok, room_id, outcome)

SpecDecrypt == Init /\ [][NextDecrypt]_vars

\* The points at which the store reports progress: never, at the end, after
\* every key, or before the first key and after every key.
ReportPoints(entries) ==
    LET n == Len(SelectSeq(entries, ParsedEntry))
    IN  {{}, {n}, 1..n, 0..n}

\* Imports of backed-up keys with a progress listener.
NextProgress ==
    \E entries \in {es \in BackupEntryLists(MaxBatch) :
                       \A i \in 1..Len(es) : es[i].id \in {"k1", "none"}} :
        \E points \in ReportPoints(entries) :
            ImportBackedUpRoomKeysListening(entries, "v1", points)

SpecProgress == Init /\ [][NextProgress]_vars

\* Two imports of keys of one room that overlap, on a store that an earlier
\* import has filled.
NextConcurrent ==
    \/ \E index \in 0..MaxIndex :
           /\ \A t \in Tasks : imports[t].pc = "idle"
           /\ ImportExportedRoomKeys(TRUE, <<[id |-> "k1", index |-> index]>>)
    \/ \E task \in Tasks, keys \in BundleKeyLists("r1", MaxImport) :
           ImportStart(task, IF task = "t1" THEN "importBackedUpRoomKeys"
                             ELSE "importExportedRoomKeys", keys)
    \/ \E task \in Tasks : Inner_import_step(task)
    \/ \E task \in Tasks : ImportFinish(task)

SpecConcurrent == Init /\ [][NextConcurrent]_vars

\* The room-key-update feed and its callback.
NextBridge ==
    \/ RegisterRoomKeyUpdatedCallback
    \/ FutureStart
    \/ FutureFinish
    \/ Close
    \/ \E item \in StreamItems : Inner_stream_yield(item)
    \/ \E res \in CallResults : BridgeCall(res)
    \/ \E rejected \in BOOLEAN : BridgeSettle(rejected)

SpecBridge == Init /\ [][NextBridge]_vars

\* The job is a chain of promises on the JavaScript event loop: it runs
\* whenever the stream has an item for it, and the promise of a callback
\* settles.
FairSpecBridge ==
    /\ SpecBridge
    /\ WF_vars(\E res \in CallResults : BridgeCall(res))
    /\ WF_vars(\E rejected \in BOOLEAN : BridgeSettle(rejected))

\* The room-key-update feed with its callback and the secrets stream with a
\* callback, each callback free to throw, to return a Promise or to return
\* something else; the secrets received all have the same value.
NextFeeds ==
    \/ RegisterRoomKeyUpdatedCallback
    \/ FutureStart
    \/ Inner_stream_yield("Ok")
    \/ \E res \in CallResults : BridgeCall(res)
    \/ \E rejected \in BOOLEAN : BridgeSettle(rejected)
    \/ RegisterReceiveSecretCallback("cb1")
    \/ \E p \in {q \in SecretPayloads : /\ Inner_accepts_secret(q)
                                        /\ IsBroadcast(GossippedSecret(q))
                                        /\ q.secret.value = "x"} :
           /\ \A s \in SinkIds : Len(sinks[s].calls) + Len(sinks[s].feed) < MaxSecrets
           /\ ReceiveSyncChanges(TRUE, <<p>>, {}, {})
    \/ \E res \in CallResults : SinkCall("cb1", res)
    \/ \E rejected \in BOOLEAN : SinkSettle("cb1", rejected)

SpecFeeds == Init /\ [][NextFeeds]_vars

\* ------------------------------------------------------------------- claims

PollIds(requests) == {r.id : r \in requests}

IsAck(l) == l.op = "markRequestAsSent"

\* C1: two outgoingRequests calls with no other call between them return the
\* same set of requests, with the same transaction ids and kinds.
C1_IdempotentPoll ==
    (last.op = "outgoingRequests" /\ last.prev.has) => last.requests = last.prev.requests

C1_Witness ==
    /\ last.op = "outgoingRequests"
    /\ last.prev.has
    /\ \E a, b \in last.requests : a.type = "KeysQuery" /\ b.type = "KeysBackup"

\* C2 as stated: a pending request leaves the ledger only by its own
\* acknowledgement.
C2_Original ==
    [][\A t \in DOMAIN ledger :
          t \notin DOMAIN ledger' =>
              (IsAck(last') /\ last'.id = t /\ last'.result = "true")]_vars

\* C2, amended: a pending request leaves the ledger only by its own
\* acknowledgement or, for a backup upload, by disableBackup; while pending it
\* is unchanged, and every outgoingRequests call returns all pending requests.
C2_NeverDropped ==
    [][/\ \A t \in DOMAIN ledger :
             IF t \in DOMAIN ledger'
             THEN ledger'[t] = ledger[t]
             ELSE \/ IsAck(last') /\ last'.id = t /\ last'.result = "true"
                  \/ last'.op = "disableBackup" /\ ledger[t].kind = "KeysBackup"
       /\ (last'.op = "outgoingRequests" => PollIds(last'.requests) = DOMAIN ledger)]_vars

C2_Witness ==
    /\ last.op = "outgoingRequests"
    /\ 1 \in PollIds(last.requests)
    /\ 2 \in acked

C4_DecodeFailureKeepsEntry ==
    (IsAck(last) /\ ~TryFromHttpResponse(last.type, last.body)) =>
        /\ last.result = "ResponseDecodeFailure"
        /\ last.recorded # "none" =>
               (last.id \in DOMAIN ledger /\ ledger[last.id].kind = last.recorded)

C4_Witness ==
    /\ IsAck(last)
    /\ last.result = "ResponseDecodeFailure"
    /\ last.recorded = last.type
    /\ last.id \in DOMAIN ledger

IsMismatch(l) == IsAck(l) /\ l.recorded \notin {"none", l.type}

\* C5 as stated: a request kind other than the recorded one always fails
\* with the request-type-mismatch error.
C5_Original ==
    IsMismatch(last) => last.result = "RequestTypeMismatch"

\* C5, amended: with a request kind other than the recorded one the call
\* fails, with the decoding error when the response does not decode for the
\* kind given and with the request-type-mismatch error otherwise; it applies
\* no side effect and keeps the entry.
C5_MismatchRejected ==
    [][IsMismatch(last') =>
          /\ last'.result = IF TryFromHttpResponse(last'.type, last'.body)
                            THEN "RequestTypeMismatch" ELSE "ResponseDecodeFailure"
          /\ last'.id \in DOMAIN ledger'
          /\ UNCHANGED <<ledger, nextTxn, tracked, roomKeys, backup, acked>>]_vars

C5_Witness ==
    /\ IsMismatch(last)
    /\ last.result = "RequestTypeMismatch"
    /\ last.id \in DOMAIN ledger

IsUnknownAck(l) == IsAck(l) /\ l.recorded = "none"

\* C6 as stated: the result of acknowledging an id that is not in the ledger
\* differs from the result of acknowledging a pending request (true).
C6_Original ==
    IsUnknownAck(last) => last.result # "true"

\* C6, amended: acknowledging an id that is not in the ledger changes
\* nothing, and the promise resolves to true whenever the response decodes
\* for the kind given: the same result as for a pending request.
C6_UnknownIdNoOp ==
    [][IsUnknownAck(last') =>
          /\ UNCHANGED <<ledger, nextTxn, tracked, roomKeys, backup, acked>>
          /\ last'.result = IF TryFromHttpResponse(last'.type, last'.body)
                            THEN "true" ELSE "ResponseDecodeFailure"]_vars

C6_Witness ==
    /\ IsUnknownAck(last)
    /\ last.result = "true"
    /\ last.id >= nextTxn
    /\ DOMAIN ledger # {}

IsSync(l) == l.op = "receiveSyncChanges" /\ l.ok

JsEventTypes == {"Decrypted", "UnableToDecrypt", "PlainText", "Invalid"}

JsReasons == {"DecryptionFailure", "UnverifiedSenderDevice", "NoOlmMachine",
              "EncryptionIsDisabled"}

Decrypts(p) == p.shape = "encrypted" /\ p.decrypt \in AlgorithmInfos

Fails(p) == p.shape = "invalid" \/ (p.shape = "encrypted" /\ p.decrypt \in SdkReasons)

Discarded(p) == Decrypts(p) /\ p.decrypt # "OlmV1Curve25519AesSha2"

Delivered(p) == ~Discarded(p)

ExpectedType(p) ==
    CASE p.shape = "invalid" -> "Invalid"
      [] p.shape = "plaintext" -> "PlainText"
      [] Decrypts(p) -> "Decrypted"
      [] OTHER -> "UnableToDecrypt"

\* The entries of the returned list that carry the payload p.
EntriesOf(p, returned) == {j \in 1..Len(returned) : returned[j].rawEvent = p.raw}

\* C7 as stated: a batch of N payloads gives exactly N entries, the i-th the
\* classification of the i-th payload, each of one of the four types.
C7_Original ==
    IsSync(last) =>
        /\ Len(last.returned) = Len(last.events)
        /\ \A i \in 1..Len(last.events) :
               /\ last.returned[i].rawEvent = last.events[i].raw
               /\ last.returned[i].type = ExpectedType(last.events[i])
               /\ last.returned[i].type \in JsEventTypes

\* C7, amended: a batch of N payloads gives, in input order, one entry of one
\* of the four types for every payload except the decrypted ones whose
\* encryption info is not Olm's, which are left out; so at most N entries, and
\* exactly N when no such payload is in the batch.
C7_OneEntryPerDeliveredPayload ==
    IsSync(last) =>
        LET kept == SelectSeq(last.events, Delivered)
        IN  /\ Len(last.returned) = Len(kept)
            /\ Len(last.returned) <= Len(last.events)
            /\ \A i \in 1..Len(kept) :
                   /\ last.returned[i].rawEvent = kept[i].raw
                   /\ last.returned[i].type = ExpectedType(kept[i])
                   /\ last.returned[i].type \in JsEventTypes

C7_Witness ==
    /\ IsSync(last)
    /\ Len(last.events) = 2
    /\ Discarded(last.events[1])
    /\ Len(last.returned) = 1
    /\ last.returned[1].type = "PlainText"

\* C8: a payload that fails (undecryptable, untrusted sender, invalid fields)
\* does not abort the batch: the call succeeds, every payload of the batch is
\* classified, the failing payload has an UnableToDecrypt or Invalid entry and
\* every other payload that is delivered has its entry too.
C8_FailureDoesNotAbortBatch ==
    (last.op = "receiveSyncChanges" /\ \E i \in 1..Len(last.events) : Fails(last.events[i])) =>
        /\ last.ok
        /\ Len(last.processed) = Len(last.events)
        /\ \A i \in 1..Len(last.events) :
               LET p == last.events[i]
               IN  /\ Fails(p) =>
                          \E j \in EntriesOf(p, last.returned) :
                              last.returned[j].type \in {"UnableToDecrypt", "Invalid"}
                   /\ (~Fails(p) /\ Delivered(p)) => EntriesOf(p, last.returned) # {}

C8_Witness ==
    /\ IsSync(last)
    /\ Len(last.events) = 2
    /\ Fails(last.events[1])
    /\ last.events[2].shape = "plaintext"
    /\ Len(last.returned) = 2
    /\ last.returned[2].type = "PlainText"

\* The entry the classification rule gives the payload p: its type, and the
\* encryption info and the reason it carries.
RuleEntry(p) ==
    CASE p.shape = "invalid" ->
            [type |-> "Invalid", rawEvent |-> p.raw, info |-> "none", reason |-> "none"]
      [] p.shape = "plaintext" ->
            [type |-> "PlainText", rawEvent |-> p.raw, info |-> "none", reason |-> "none"]
      [] Decrypts(p) ->
            [type |-> "Decrypted", rawEvent |-> p.raw, info |-> "ToDeviceEncryptionInfo",
             reason |-> "none"]
      [] p.decrypt = "SdkDecryptionFailure" ->
            [type |-> "UnableToDecrypt", rawEvent |-> p.raw, info |-> "none",
             reason |-> "DecryptionFailure"]
      [] p.decrypt = "SdkUnverifiedSenderDevice" ->
            [type |-> "UnableToDecrypt", rawEvent |-> p.raw, info |-> "none",
             reason |-> "UnverifiedSenderDevice"]
      [] p.decrypt = "SdkNoOlmMachine" ->
            [type |-> "UnableToDecrypt", rawEvent |-> p.raw, info |-> "none",
             reason |-> "NoOlmMachine"]
      [] p.decrypt = "SdkEncryptionIsDisabled" ->
            [type |-> "UnableToDecrypt", rawEvent |-> p.raw, info |-> "none",
             reason |-> "EncryptionIsDisabled"]

\* C9 as stated: every payload is classified by the fixed rule, a
\* successfully decrypted payload always giving a Decrypted entry with its
\* encryption info.
C9_Original ==
    IsSync(last) =>
        \A i \in 1..Len(last.events) :
            \E j \in 1..Len(last.returned) : last.returned[j] = RuleEntry(last.events[i])

\* C9, amended: every payload is classified by the fixed rule (Invalid, else
\* PlainText, else Decrypted with encryption info, else UnableToDecrypt with
\* exactly one of the four reasons), except that a successfully decrypted
\* payload whose encryption info is not Olm's gives no entry at all.
C9_ClassificationRule ==
    IsSync(last) =>
        /\ \A i \in 1..Len(last.events) :
               LET p    == last.events[i]
                   mine == EntriesOf(p, last.returned)
               IN  IF Discarded(p)
                   THEN mine = {}
                   ELSE mine # {} /\ \A j \in mine : last.returned[j] = RuleEntry(p)
        /\ \A j \in 1..Len(last.returned) :
               (last.returned[j].type = "UnableToDecrypt") <=>
                   (last.returned[j].reason \in JsReasons)

C9_Witness ==
    /\ IsSync(last)
    /\ Len(last.returned) = 2
    /\ last.returned[1].type = "UnableToDecrypt"
    /\ last.returned[1].reason = "UnverifiedSenderDevice"
    /\ last.returned[2].type = "Decrypted"
    /\ last.returned[2].info = "ToDeviceEncryptionInfo"

IsImport(l) == l.op \in ImportOps /\ l.ok

\* The candidates of the list that name the key k.
CandidatesFor(k, candidates) == {i \in 1..Len(candidates) : candidates[i].id = k}

\* The store holds the key k at least as advanced as every candidate for it.
NotBehind(store, k, candidates) ==
    /\ store[k] # NoKey
    /\ \A i \in CandidatesFor(k, candidates) : store[k].index >= candidates[i].index

\* C10: an import (importExportedRoomKeys, importBackedUpRoomKeys or
\* receiveRoomKeyBundle) leaves a stored key that is at least as advanced as
\* the candidates for it exactly as it was and does not count those
\* candidates as imported; when that is so for every candidate, the store
\* after the import equals the store before it.
C10_NoDowngrade ==
    [][IsImport(last') =>
          LET candidates == last'.candidates
              named      == {k \in KeyIds : CandidatesFor(k, candidates) # {}}
              kept       == {k \in named : NotBehind(roomKeys, k, candidates)}
          IN  /\ \A k \in kept : roomKeys'[k] = roomKeys[k] /\ k \notin last'.result.keys
              /\ last'.result.importedCount <= Len(candidates) - Cardinality(kept)
              /\ kept = named =>
                     (roomKeys' = roomKeys /\ last'.result.importedCount = 0)]_vars

C10_Witness ==
    /\ last.op = "importBackedUpRoomKeys"
    /\ Len(last.candidates) = 1
    /\ last.result.importedCount = 0
    /\ last.result.totalCount = 1
    /\ roomKeys[last.candidates[1].id].index > last.candidates[1].index
    /\ roomKeys[last.candidates[1].id].backedUp

IsUpdate(l) == l.op = "updateTrackedUsers"

\* The pending key queries that cover the user u.
QueriesFor(l, u) == {t \in DOMAIN l : l[t].kind = "KeysQuery" /\ u \in l[t].users}

\* C11: updateTrackedUsers with a user not tracked before flags the user and
\* adds exactly one KeysQuery request covering the user, which the next
\* outgoingRequests call returns; with a user tracked already it adds no
\* request for the user and leaves the user's tracking state as it was.
C11_TrackOnce ==
    [][/\ IsUpdate(last') =>
              /\ \A u \in last'.users :
                     IF tracked[u] = "untracked"
                     THEN /\ tracked'[u] = "dirty"
                          /\ Cardinality(QueriesFor(ledger', u)) = 1
                          /\ QueriesFor(ledger', u) \cap DOMAIN ledger = {}
                     ELSE /\ tracked'[u] = tracked[u]
                          /\ QueriesFor(ledger', u) = QueriesFor(ledger, u)
              /\ (\A u \in last'.users : tracked[u] # "untracked") => ledger' = ledger
              /\ Cardinality(DOMAIN ledger') <= Cardinality(DOMAIN ledger) + 1
       /\ (IsUpdate(last) /\ last'.op = "outgoingRequests") =>
              \A u \in last.added :
                  \E r \in last'.requests : r.type = "KeysQuery" /\ r.id \in QueriesFor(ledger, u)]_vars

C11_Witness ==
    /\ IsUpdate(last)
    /\ last.users = {"u1"}
    /\ tracked["u1"] = "clean"
    /\ ledger = <<>>
    /\ acked # {}

IsSyncDelta(l) == l.op = "receiveSyncChanges" /\ l.ok

\* The step is a successful acknowledgement of a key query covering u.
AcksQueryFor(u) ==
    /\ last'.op = "markRequestAsSent"
    /\ last'.result = "true"
    /\ last'.id \in QueriesFor(ledger, u)
    /\ last'.id \notin DOMAIN ledger'

\* Every user flagged dirty is covered by a pending key query.
DirtyIsQueried == \A u \in Users : tracked[u] = "dirty" => QueriesFor(ledger, u) # {}

\* C12 as stated: the dirty flag of a user is cleared only by the
\* acknowledgement of a successful key query covering the user.
C12_Original ==
    [][\A u \in Users :
          (tracked[u] = "dirty" /\ tracked'[u] # "dirty") => AcksQueryFor(u)]_vars

\* C12, amended: a changed notification flags a tracked user dirty and a key
\* query covering the user is pending for as long as the flag is set; the
\* flag is cleared only by the acknowledgement of a successful key query
\* covering the user or by a left notification for the user; a changed
\* notification for a user that is not tracked flags nothing.
C12_DirtyUntilQueried ==
    [][/\ DirtyIsQueried'
       /\ \A u \in Users :
              (tracked[u] = "dirty" /\ tracked'[u] # "dirty") =>
                  \/ AcksQueryFor(u)
                  \/ IsSyncDelta(last') /\ u \in last'.left
       /\ IsSyncDelta(last') =>
              \A u \in last'.changed \ last'.left :
                  IF tracked[u] = "untracked"
                  THEN tracked'[u] = "untracked" /\ QueriesFor(ledger', u) = {}
                  ELSE tracked'[u] = "dirty" /\ QueriesFor(ledger', u) # {}]_vars

C12_Witness ==
    /\ IsSyncDelta(last)
    /\ last.changed = {"u1", "u2"}
    /\ last.left = {}
    /\ tracked["u1"] = "dirty"
    /\ tracked["u2"] = "untracked"
    /\ 1 \in acked
    /\ QueriesFor(ledger, "u1") = {2}

\* C13: a left notification for a tracked user resets the user's dirty flag
\* and adds no key query covering the user, whether or not the same
\* notification lists the user as changed.
C13_LeftResetsDirty ==
    [][IsSyncDelta(last') =>
          \A u \in last'.left :
              /\ tracked'[u] = IF tracked[u] = "untracked" THEN "untracked" ELSE "clean"
              /\ QueriesFor(ledger', u) = QueriesFor(ledger, u)]_vars

C13_Witness ==
    /\ IsSyncDelta(last)
    /\ "u1" \in last.left
    /\ tracked["u1"] = "clean"
    /\ QueriesFor(ledger, "u1") # {}
    /\ acked = {}

IsEnable(l) == l.op = "enableBackupV1" /\ l.ok

NoneBackedUp(keys) == \A k \in KeyIds : ~keys[k].backedUp

IsBackupCall(l) == l.op = "backupRoomKeys"

\* The step is a successful acknowledgement of a backup upload that
\* included the key k.
AcksBackupOf(k) ==
    /\ last'.op = "markRequestAsSent"
    /\ last'.result = "true"
    /\ last'.id \in DOMAIN ledger
    /\ ledger[last'.id].kind = "KeysBackup"
    /\ k \in ledger[last'.id].keys

NoBackupPending(l) == \A t \in DOMAIN l : l[t].kind # "KeysBackup"

\* C16: disableBackup clears the enabled state, resets the backed-up flag of
\* every room key and removes every pending backup-upload request and no
\* other request; the next outgoingRequests call does not return such a
\* request, and an acknowledgement of a request that is no longer (or never
\* was) in the ledger flags no key.
C16_DisableDiscards ==
    [][/\ last'.op = "disableBackup" =>
              /\ backup' = "Disabled"
              /\ roomKeys' = ResetBackedUp(roomKeys)
              /\ NoBackupPending(ledger')
              /\ \A t \in DOMAIN ledger : ledger[t].kind # "KeysBackup" =>
                     (t \in DOMAIN ledger' /\ ledger'[t] = ledger[t])
       /\ (last.op = "disableBackup" /\ last'.op = "outgoingRequests") =>
              \A r \in last'.requests : r.type # "KeysBackup"
       /\ (last'.op = "markRequestAsSent" /\ last'.id \notin DOMAIN ledger) =>
              roomKeys' = roomKeys]_vars

C16_Witness ==
    /\ last.op = "markRequestAsSent"
    /\ last.type = "KeysBackup"
    /\ last.recorded = "none"
    /\ last.result = "true"
    /\ last.id < nextTxn
    /\ last.id \notin acked
    /\ backup = "Disabled"
    /\ Held(roomKeys) # {}

\* C17: the backup is disabled initially, enabled by a successful
\* enableBackupV1 and by nothing else, disabled by disableBackup and by
\* nothing else; isBackupEnabled tells which; backupRoomKeys returns no
\* request and changes nothing while it is disabled; verifyBackup changes
\* nothing.
C17_TwoStateBackup ==
    /\ (last.op = "initialize" => backup = "Disabled")
    /\ [][/\ IsEnable(last') => backup' = last'.version
          /\ last'.op = "disableBackup" => backup' = "Disabled"
          /\ backup' # backup => (IsEnable(last') \/ last'.op = "disableBackup")
          /\ last'.op = "isBackupEnabled" =>
                 (last'.result = (backup # "Disabled") /\ backup' = backup)
          /\ (IsBackupCall(last') /\ backup = "Disabled") =>
                 (last'.request = 0 /\ ledger' = ledger /\ roomKeys' = roomKeys)
          /\ last'.op = "verifyBackup" =>
                 UNCHANGED <<ledger, nextTxn, tracked, roomKeys, backup, acked>>]_vars

C17_Witness ==
    /\ last.op = "isBackupEnabled"
    /\ ~last.result
    /\ acked # {}
    /\ Held(roomKeys) # {}

IsBuild(l) == l.op = "buildRoomKeyBundle"

\* C18: buildRoomKeyBundle returns undefined exactly when no room key is held
\* for the room, and otherwise an encrypted attachment of a bundle that is
\* not empty; it changes nothing.
C18_NoEmptyBundle ==
    IsBuild(last) =>
        LET held == {k \in KeyIds : roomKeys[k] # NoKey /\ RoomOf[k] = last.room}
        IN  /\ last.result = IF held = {} THEN "undefined" ELSE "EncryptedAttachment"
            /\ last.result = "EncryptedAttachment" => last.bundle # {}
            /\ last.bundle = held

C18_Witness ==
    /\ IsBuild(last)
    /\ last.room = "r1"
    /\ last.result = "undefined"
    /\ roomKeys["k2"] # NoKey

IsLookup(l) == l.op = "getReceivedRoomKeyBundleData"

IsBundleImport(l) == l.op = "receiveRoomKeyBundle"

\* The bundle metadata carried by the payloads of a batch.
AnnouncedIn(events) == {events[i].bundle : i \in 1..Len(events)} \ {NoBundle}

\* C19: the metadata of a bundle is recorded under (room, inviter) when the
\* payload that carries it is received, without a key entering the store;
\* getReceivedRoomKeyBundleData returns it for that pair from then on, and
\* undefined for a pair for which none was received, and changes nothing;
\* the key store changes only by an import; receiveRoomKeyBundle takes
\* metadata that was received, imports nothing when the blob does not
\* decrypt, and otherwise imports under the non-downgrade rule.
C19_TwoPhaseBundle ==
    [][/\ IsSyncDelta(last') =>
              /\ received' = received \cup AnnouncedIn(last'.events)
              /\ roomKeys' = roomKeys
       /\ IsLookup(last') =>
              LET pair == [room |-> last'.room, inviter |-> last'.inviter]
              IN  /\ last'.result = IF pair \in received THEN "StoredRoomKeyBundleData"
                                    ELSE "undefined"
                  /\ pair \in received => last'.data = pair
                  /\ UNCHANGED <<ledger, nextTxn, tracked, roomKeys, backup, acked, received>>
       /\ roomKeys' # roomKeys => IsImport(last')
       /\ received \subseteq received'
       /\ IsBundleImport(last') =>
              /\ last'.bundle_data \in received
              /\ ~last'.ok => roomKeys' = roomKeys
              /\ \A k \in KeyIds :
                     /\ roomKeys'[k].index >= roomKeys[k].index
                     /\ (CandidatesFor(k, last'.candidates) = {}
                         \/ NotBehind(roomKeys, k, last'.candidates)) =>
                            roomKeys'[k] = roomKeys[k]]_vars

C19_Witness ==
    /\ IsBundleImport(last)
    /\ last.ok
    /\ last.result.importedCount = 1
    /\ received = {last.bundle_data}
    /\ last.bundle_data.inviter = "u2"

\* The calls of the callback that failed: it threw or its promise rejected.
FailedCalls == {i \in 1..Len(bridge.calls) : bridge.calls[i].result \in {"throws", "rejected"}}

\* The callback returned something that is not a Promise.
BridgePanicked == bridge.pc = "panicked"

\* C20: a callback that throws, or whose promise rejects, does not stop the
\* job: the failure is logged and the job is back at the stream; the
\* callback is called once for every item in the order of the stream, and
\* every item the stream yields is passed to the callback, whatever happened
\* to the calls before it, unless the callback returned a non-Promise.
C20_FailingSinkKeepsFeed ==
    /\ [](/\ bridge.warnings = Cardinality(FailedCalls)
          /\ \A i \in 1..Len(bridge.calls) : bridge.calls[i].n = i
          /\ Len(bridge.calls) + Len(bridge.feed) = bridge.yielded
          /\ BridgePanicked =>
                 (bridge.calls # <<>>
                  /\ bridge.calls[Len(bridge.calls)].result = "not_promise"))
    /\ \A i \in 1..MaxItems :
           (bridge.yielded >= i) ~> (Len(bridge.calls) >= i \/ BridgePanicked)

C20_Witness ==
    /\ Len(bridge.calls) = 3
    /\ bridge.calls[1].result = "throws"
    /\ bridge.calls[2].result = "rejected"
    /\ bridge.calls[3].result = "resolved"
    /\ bridge.warnings = 2

\* C21: the callback is called for the items in the order the stream yielded
\* them: the calls made so far are for items in increasing order of
\* production, every new call is for the oldest item not yet taken, it starts
\* only when the job is back at the stream, and it comes after the calls
\* already made.
C21_SinkCalledInFeedOrder ==
    /\ [](\A i, j \in 1..Len(bridge.calls) :
              i < j => bridge.calls[i].n < bridge.calls[j].n)
    /\ [][/\ \A i \in 1..Len(bridge.calls) :
                /\ i <= Len(bridge'.calls)
                /\ bridge'.calls[i].n = bridge.calls[i].n
          /\ Len(bridge'.calls) > Len(bridge.calls) =>
                /\ Len(bridge'.calls) = Len(bridge.calls) + 1
                /\ bridge.pc = "next"
                /\ bridge.feed # <<>>
                /\ bridge'.calls[Len(bridge'.calls)].n = Head(bridge.feed).n
                /\ \A k \in 1..Len(bridge.feed) :
                       Head(bridge.feed).n <= bridge.feed[k].n]_vars

C21_Witness ==
    /\ Len(bridge.calls) = 2
    /\ bridge.calls[1].n = 1
    /\ bridge.calls[2].n = 2
    /\ bridge.pc = "await"
    /\ Len(bridge.feed) = 1
    /\ bridge.feed[1].n = 3

IsInboxRead(l) == l.op = "getSecretsFromInbox"

IsInboxDelete(l) == l.op = "deleteSecretsFromInbox"

\* The values of the inbox entries of a name.
InboxValues(inbox, name) == {g.event.secret.value : g \in {h \in inbox : h.secret_name = name}}

\* C24: an entry leaves the inbox only in a deleteSecretsFromInbox call for
\* its name; that call removes every entry of the name and no other entry;
\* getSecretsFromInbox returns the values of the entries of the name and
\* leaves the inbox as it is; the calls of the callback leave it as it is.
C24_InboxKeptUntilDeleted ==
    [][/\ \A g \in secrets.inbox :
             g \notin secrets'.inbox =>
                 (IsInboxDelete(last') /\ last'.name = g.secret_name)
       /\ (IsInboxDelete(last') /\ last' # last) =>
             secrets'.inbox = {g \in secrets.inbox : g.secret_name # last'.name}
       /\ (IsInboxRead(last') /\ last' # last) =>
             /\ secrets' = secrets
             /\ last'.result = InboxValues(secrets.inbox, last'.name)
       /\ sinks' # sinks => secrets.inbox \subseteq secrets'.inbox]_vars

C24_Witness ==
    /\ IsInboxRead(last)
    /\ last.name = "m.megolm_backup.v1"
    /\ last.result = {"x", "y"}
    /\ Len(sinks["cb1"].calls) = 2
    /\ sinks["cb1"].calls[1].result = "resolved"
    /\ sinks["cb1"].calls[2].result = "resolved"

\* The event that carried the secret was classified Decrypted and was sent
\* by one of the user's own verified devices.
FromVerifiedChannel(g) ==
    /\ ExpectedType(g.event) = "Decrypted"
    /\ g.event.sender = "own_verified"
    /\ g.event.secret.name = g.secret_name

\* The secrets that a batch puts in the inbox: those of its payloads that
\* were classified Decrypted and come from an own verified device.
StoredFrom(l) ==
    {[secret_name |-> l.events[i].secret.name, event |-> l.events[i]] :
        i \in {j \in 1..Len(l.events) :
                  /\ l.processed[j].variant = "Decrypted"
                  /\ l.events[j].sender = "own_verified"
                  /\ l.events[j].secret # NoSecret}}

\* C25: every secret in the inbox, waiting for a callback or passed to one
\* arrived in a payload classified Decrypted from an own verified device and
\* is passed with the name and value it arrived with; the inbox grows only
\* in receiveSyncChanges, by secrets of such payloads of the batch; a secret
\* is given to a callback only when it is put in the inbox.
C25_OnlyVerifiedSecrets ==
    /\ [](/\ \A g \in secrets.inbox : FromVerifiedChannel(g)
          /\ \A s \in SinkIds :
                /\ \A i \in 1..Len(sinks[s].feed) : FromVerifiedChannel(sinks[s].feed[i])
                /\ \A i \in 1..Len(sinks[s].calls) :
                       LET call == sinks[s].calls[i]
                       IN  /\ FromVerifiedChannel(call.gossip)
                           /\ call.secret_name = call.gossip.event.secret.name
                           /\ call.value = call.gossip.event.secret.value)
    /\ [][/\ secrets'.inbox \ secrets.inbox # {} =>
                /\ IsSync(last')
                /\ secrets'.inbox \ secrets.inbox \subseteq StoredFrom(last')
          /\ \A s \in SinkIds :
                Len(sinks'[s].feed) > Len(sinks[s].feed) =>
                    /\ IsSync(last')
                    /\ \A i \in Len(sinks[s].feed) + 1..Len(sinks'[s].feed) :
                           sinks'[s].feed[i] \in StoredFrom(last') \cap secrets'.inbox]_vars

C25_Witness ==
    /\ IsSync(last)
    /\ Len(last.events) = 1
    /\ last.events[1].sender = "own_unverified"
    /\ last.events[1].secret = [name |-> "m.megolm_backup.v1", value |-> "x"]
    /\ last.processed[1].variant = "Decrypted"
    /\ InboxValues(secrets.inbox, "m.megolm_backup.v1") = {"y"}
    /\ Len(sinks["cb1"].calls) = 1
    /\ sinks["cb1"].calls[1].value = "y"
    /\ sinks["cb1"].feed = <<>>

IsSecretRequest(l) == l.op = "requestMissingSecretsIfNeeded"

\* The secrets asked for by the pending secret requests of a ledger.
AskedFor(l) ==
    UNION {l[t].keys \cap SecretNames : t \in {x \in DOMAIN l : l[x].kind = "ToDevice"}}

\* C26: requestMissingSecretsIfNeeded returns true exactly when a local
\* secret is missing and the call added a request to the ledger; the request
\* is one to-device request for missing secrets that no pending request asks
\* for; when nothing is missing, or every missing secret is asked for by a
\* pending request, the result is false and the ledger is unchanged; a
\* pending secret request is returned by outgoingRequests.
C26_SecretRequestOnce ==
    [][/\ IsSecretRequest(last') =>
             LET missing == SecretNames \ secrets.held
                 added   == DOMAIN ledger' \ DOMAIN ledger
             IN  /\ last'.result = (missing # {} /\ added # {})
                 /\ missing = {} => (~last'.result /\ ledger' = ledger)
                 /\ missing \subseteq AskedFor(ledger) => (~last'.result /\ ledger' = ledger)
                 /\ missing \ AskedFor(ledger) # {} => last'.result
                 /\ last'.result =>
                        /\ added = {last'.request}
                        /\ ledger'[last'.request].kind = "ToDevice"
                        /\ ledger'[last'.request].keys = missing \ AskedFor(ledger)
                        /\ \A t \in DOMAIN ledger : ledger'[t] = ledger[t]
                 /\ secrets' = secrets
       /\ last'.op = "outgoingRequests" =>
             \A t \in DOMAIN ledger :
                 [id |-> t, type |-> ledger[t].kind] \in last'.requests]_vars

C26_Witness ==
    /\ IsSecretRequest(last)
    /\ ~last.result
    /\ last.missing = {"m.megolm_backup.v1"}
    /\ AskedFor(ledger) = SecretNames
    /\ Cardinality(DOMAIN ledger) = 1

\* The secrets the stream has yielded to a callback.
YieldedTo(s) == Len(sinks[s].calls) + Len(sinks[s].feed)

\* C22: the callbacks registered on the secrets stream are driven each by a
\* job of its own: a step of one job (a call, or a promise that settles)
\* changes nothing of another job, a secret is yielded to every registered
\* callback alike, and every secret yielded to callback cb2 is passed to it,
\* whatever callback cb1 does: throw, reject, or never settle its promise.
C22_SinksIndependent ==
    /\ [][/\ \A s \in SinkIds :
                 (sinks'[s].calls # sinks[s].calls \/ sinks'[s].pc # sinks[s].pc) =>
                     \A t \in SinkIds \ {s} : sinks'[t] = sinks[t]
          /\ \A s, t \in SinkIds :
                 (sinks[s].registered /\ sinks[t].registered) =>
                     SubSeq(sinks'[s].feed, Len(sinks[s].feed) + 1, Len(sinks'[s].feed))
                   = SubSeq(sinks'[t].feed, Len(sinks[t].feed) + 1, Len(sinks'[t].feed))]_vars
    /\ \A i \in 1..MaxSecrets :
           (YieldedTo("cb2") >= i) ~> (Len(sinks["cb2"].calls) >= i)

C22_Witness ==
    /\ sinks["cb1"].pc = "await"
    /\ Len(sinks["cb1"].calls) = 1
    /\ Len(sinks["cb1"].feed) = 1
    /\ Len(sinks["cb2"].calls) = 2
    /\ sinks["cb2"].calls[1].gossip = sinks["cb1"].calls[1].gossip
    /\ sinks["cb2"].calls[2].gossip = sinks["cb1"].feed[1]
    /\ sinks["cb2"].pc = "next"

\* C23: after close() the callback is not called for an item that the stream
\* yielded after the close.
C23_ClosedSinkNotCalled ==
    bridge.closed =>
        \A i \in 1..Len(bridge.calls) : bridge.calls[i].n <= bridge.closedAt

\* The step is a getMissingSessions call.
IsMissingCall == last'.op = "getMissingSessions" /\ last' # last

\* The pending key claims that cover the pair.
PendingClaims(p) ==
    {t \in DOMAIN ledger : ledger[t].kind = "KeysClaim" /\ p \in ledger[t].users}

\* C27: getMissingSessions(users) returns one KeysClaimRequest that covers
\* exactly the (user, device) pairs of the users that lack an Olm session, and
\* null, with nothing enqueued, when every device of the users has one.
C27_OneClaimForMissing ==
    [][IsMissingCall =>
          LET missing == {p \in Pairs : p.user \in last'.users /\ p \notin sessions}
              id      == last'.request
          IN  IF missing = {}
              THEN last'.result = "null" /\ ledger' = ledger
              ELSE /\ last'.result = "KeysClaimRequest"
                   /\ id \notin DOMAIN ledger
                   /\ DOMAIN ledger' = DOMAIN ledger \cup {id}
                   /\ \A t \in DOMAIN ledger : ledger'[t] = ledger[t]
                   /\ ledger'[id].kind = "KeysClaim"
                   /\ ledger'[id].users = missing]_vars

\* A claim was returned for some devices of the users while others of them
\* already had a session.
C27_Witness ==
    /\ last.op = "getMissingSessions"
    /\ last.result = "KeysClaimRequest"
    /\ last.request \in DOMAIN ledger
    /\ ledger[last.request].users # {}
    /\ \E p \in sessions : p.user \in last.users

\* C28: a getMissingSessions call made while a claim for a pair is still
\* unacknowledged claims the pair again; made after the claim was acknowledged
\* (the session exists), it produces no claim for the pair.
C28_OverlapClaimsTwice ==
    [][IsMissingCall =>
          \A p \in {q \in Pairs : q.user \in last'.users} :
              /\ (PendingClaims(p) # {} /\ p \notin sessions) =>
                     /\ last'.result = "KeysClaimRequest"
                     /\ p \in ledger'[last'.request].users
                     /\ last'.request \notin PendingClaims(p)
              /\ p \in sessions =>
                     \/ last'.result = "null"
                     \/ p \notin ledger'[last'.request].users]_vars

\* Two key claims for the same pair are pending.
C28_Witness ==
    /\ last.op = "getMissingSessions"
    /\ \E p \in Pairs : \E t1, t2 \in PendingClaims(p) : t1 # t2

\* The step is a shareRoomKey call.
IsShareCall == last'.op = "shareRoomKey" /\ last' # last

\* Sessions are established with the devices of the users, and the room key
\* has been shared with the recipients and with nobody else.
KeyShared(users, recipients) ==
    /\ {p \in Pairs : p.user \in users} \subseteq sessions
    /\ outbound.id # 0
    /\ outbound.shared = recipients
    /\ Inner_holders(outbound) = recipients

\* Nothing was returned and nothing of the machine changed.
ShareWasNoop == last'.requests = {} /\ ledger' = ledger /\ outbound' = outbound

C30_RotationRule ==
    [][(IsShareCall /\ outbound.id # 0) =>
          LET recipients == Inner_recipients(last'.users, last'.settings)
              due    == \/ outbound.messages >= outbound.max_messages
                        \/ outbound.old
              shrunk == \E p \in Inner_holders(outbound) : p \notin recipients
          IN  /\ (outbound'.id # outbound.id) <=> (due \/ shrunk)
              /\ ~(due \/ shrunk) =>
                     /\ outbound' = outbound
                     /\ last'.to \subseteq recipients
                     /\ last'.to \cap outbound.shared = {}
              /\ (due \/ shrunk) =>
                     /\ outbound'.id = outbound.id + 1
                     /\ outbound'.shared = {}
                     /\ outbound'.messages = 0]_vars

\* The recipients grew: the session that some devices hold was kept and sent
\* to new devices only.
C30_Witness ==
    /\ last.op = "shareRoomKey"
    /\ last.before = last.session
    /\ last.before # 0
    /\ last.to # {}
    /\ outbound.shared # {}
    /\ outbound.shared \cap last.to = {}

\* The (keys, passphrase, rounds) whose encryption is the container.
OriginsOf(container) ==
    {o \in {[keys |-> ks, passphrase |-> pw, rounds |-> r] :
               ks \in CandidateLists(MaxImport), pw \in Passphrases, r \in RoundCounts} :
        Inner_encrypt_room_key_export(o.keys, o.passphrase, o.rounds) = container}

IsSetSettings == last'.op = "setRoomSettings" /\ last' # last

IsGetSettings == last'.op = "getRoomSettings" /\ last' # last

\* What getRoomSettings returns for the room in the given store.
SettingsRead(store, room) ==
    [defined |-> store[room].some, result |-> RoomSettings_from(store[room].value)]

\* The settings weaken the stored ones: another algorithm, or untrusted
\* devices are let in again.
Downgrades(stored, new) ==
    \/ new.algorithm # stored.algorithm
    \/ stored.only_allow_trusted_devices /\ ~new.only_allow_trusted_devices

\* C32: setRoomSettings with settings that downgrade the stored ones is
\* rejected, and a rejected call changes nothing: getRoomSettings returns
\* what it returned before the call.
C32_DowngradeRejected ==
    [][/\ IsSetSettings =>
              LET before == SettingsRead(roomSettings, last'.room)
              IN  /\ (before.defined /\ Downgrades(before.result, last'.settings))
                         => ~last'.ok
                  /\ ~last'.ok =>
                         /\ roomSettings' = roomSettings
                         /\ \A r \in Rooms :
                                SettingsRead(roomSettings', r) = SettingsRead(roomSettings, r)
       /\ IsGetSettings =>
              /\ roomSettings' = roomSettings
              /\ last'.defined = SettingsRead(roomSettings, last'.room).defined
              /\ last'.defined =>
                     last'.result = SettingsRead(roomSettings, last'.room).result]_vars

\* A call that drops the trust requirement of a room was rejected.
C32_Witness ==
    /\ last.op = "setRoomSettings"
    /\ ~last.ok
    /\ ~last.settings.only_allow_trusted_devices
    /\ roomSettings[last.room].some
    /\ roomSettings[last.room].value.only_allow_trusted_devices

\* The rotation values of the settings are whole and not negative.
WholeRotation(s) ==
    /\ s.session_rotation_period_ms.some => IsWhole(s.session_rotation_period_ms.value)
    /\ s.session_rotation_period_messages.some =>
           IsWhole(s.session_rotation_period_messages.value)

\* The rotation values fit: the period is at most 2^64 milliseconds, the
\* message count less than 2^32.
FittingRotation(s) ==
    /\ s.session_rotation_period_ms.some =>
           s.session_rotation_period_ms.value.exp <= 64
    /\ s.session_rotation_period_messages.some =>
           LET n == s.session_rotation_period_messages.value
           IN  n.exp < 32 \/ (n.exp = 32 /\ n.less1)

\* A getRoomSettings right after a successful setRoomSettings for the room
\* returns the settings given, if they are in `ok`.
ReadsBack(ok(_)) ==
    (IsGetSettings /\ last.op = "setRoomSettings" /\ last.ok /\ last.room = last'.room
        /\ ok(last.settings))
    => (last'.defined /\ last'.result = last.settings)

\* A setRoomSettings leaves the other rooms alone, and a room has settings
\* only from a successful setRoomSettings for it.
OnlyWrittenRoom ==
    /\ IsSetSettings => \A r \in Rooms \ {last'.room} : roomSettings'[r] = roomSettings[r]
    /\ \A r \in Rooms :
           (~roomSettings[r].some /\ roomSettings'[r].some)
               => (IsSetSettings /\ last'.room = r /\ last'.ok)
    /\ IsGetSettings => (last'.defined <=> roomSettings[last'.room].some)

\* C38 as stated: the settings read back equal the settings written, for all
\* whole rotation values that are not negative.
C38_Original == [][ReadsBack(WholeRotation) /\ OnlyWrittenRoom]_vars

InRange(s) == WholeRotation(s) /\ FittingRotation(s)

\* C38, amended: ... for whole rotation values that are not negative and fit
\* (a period of at most 2^64 ms, a message count below 2^32); the settings of
\* other rooms are unchanged, and a room never written reads as undefined.
C38_SettingsRoundTrip == [][ReadsBack(InRange) /\ OnlyWrittenRoom]_vars

\* Settings with both rotation values were written and read back.
C38_Witness ==
    /\ last.op = "getRoomSettings"
    /\ last.defined
    /\ last.result.session_rotation_period_ms.some
    /\ last.result.session_rotation_period_messages.some
    /\ last.result.session_rotation_period_messages.value = UnsignedMax(UsizeBits)
    /\ \E r \in Rooms : ~roomSettings[r].some

\* C33: getDevice and getUserDevices always complete: no call fails, a call
\* that waits is answered or times out, and returns fresh data only if the
\* list is no longer stale; without a timeout the call returns at once.
C33_LookupCompletes ==
    /\ [](lookup.pc \in {"idle", "waiting", "done"})
    /\ [](lookup.pc = "done" => lookup.data \in {"fresh", "stale"})
    /\ [][(lookup'.pc = "done" /\ lookup'.data = "fresh" /\ lookup' # lookup)
             => ~Inner_is_stale(lookup'.user)]_vars
    /\ [][(last' # last /\ last'.op \in {"getDevice", "getUserDevices"}
              /\ last'.timeout_secs = "unset") => lookup'.pc = "done"]_vars
    /\ (lookup.pc = "waiting") ~> (lookup.pc = "done")

\* The last call was a decryptRoomEvent whose promise was rejected because
\* of a MegolmError.
RejectedWith(kind) ==
    last.op = "decryptRoomEvent" /\ ~last.thrown /\ ~last.resolved /\ last.cause.kind = kind

\* C34: a decryption failure because of mismatched identity keys is
\* reported with the code MismatchedIdentityKeys.
C34_MismatchedKeysCode ==
    RejectedWith("MismatchedIdentityKeys") => last.error.code = "MismatchedIdentityKeys"

\* The code for each verification level of a sender-identity-not-trusted
\* error.
CodeOfLevel ==
    [vl \in VerificationLevels |->
        CASE vl = "VerificationViolation" -> "SenderIdentityVerificationViolation"
          [] vl = "UnsignedDevice" -> "UnsignedSenderDevice"
          [] vl = "None" -> "UnknownSenderDevice"
          [] vl = "MismatchedSender" -> "MismatchedSender"
          [] vl = "UnverifiedIdentity" -> "UnableToDecrypt"]

\* C35: a sender-identity-not-trusted error has the code of its verification
\* level, with UnverifiedIdentity reported as UnableToDecrypt; only a
\* missing-room-key error carries a withheld code.
C35_LevelToCode ==
    /\ RejectedWith("SenderIdentityNotTrusted") =>
           /\ last.cause.level \in VerificationLevels
           /\ last.error.code = CodeOfLevel[last.cause.level]
    /\ (last.op = "decryptRoomEvent" /\ last.error.withheld_code # "none") =>
           /\ RejectedWith("MissingRoomKey")
           /\ last.error.code = "MissingRoomKey"
           /\ last.error.withheld_code = last.cause.withheld

\* An unverified identity was reported as a generic failure, after a missing
\* key with a withheld code.
C35_Witness ==
    /\ RejectedWith("SenderIdentityNotTrusted")
    /\ last.cause.level = "UnverifiedIdentity"
    /\ last.error.code = "UnableToDecrypt"
    /\ last.before = "MissingRoomKey"

\* The entries of the list that parse, as candidates, and the others.
ParsingEntries(entries) ==
    LET parsed == SelectSeq(entries, LAMBDA e : e.parses)
    IN  [i \in 1..Len(parsed) |-> [id |-> parsed[i].id, index |-> parsed[i].index]]

ImportedIndices(k) ==
    UNION {{imports[t].keys[i].index :
               i \in {j \in 1..Len(imports[t].keys) : imports[t].keys[j].id = k}} :
           t \in Tasks}

\* The largest of a set of numbers.
Largest(numbers) == CHOOSE n \in numbers : \A m \in numbers : m <= n

\* Two imports overlapped.
Overlapped == \E t \in Tasks : imports[t].overlapped

\* The store before the first of the overlapping imports started.
BaseStore == imports[CHOOSE t \in Tasks : imports[t].overlapped].base

Outstanding(calls) == {i \in 1..Len(calls) : calls[i].result = "promise"}

\* C39: every sink has at most one call whose promise has not settled, and
\* a sink is called for the next item only when no promise of an earlier
\* call is unsettled, so that a sink whose promise never settles is called
\* for no further item.
C39_OneOutstandingCall ==
    /\ [](/\ Cardinality(Outstanding(bridge.calls)) <= 1
          /\ \A s \in SinkIds : Cardinality(Outstanding(sinks[s].calls)) <= 1)
    /\ [][/\ Len(bridge'.calls) > Len(bridge.calls) => Outstanding(bridge.calls) = {}
          /\ \A s \in SinkIds :
                 Len(sinks'[s].calls) > Len(sinks[s].calls) =>
                     Outstanding(sinks[s].calls) = {}]_vars

\* Each sink has been called once with a settled promise or more, waits at an
\* unsettled promise and has an item waiting in its feed.
C39_Witness ==
    /\ Len(bridge.calls) = 2
    /\ bridge.calls[1].result = "resolved"
    /\ Outstanding(bridge.calls) = {2}
    /\ bridge.feed # <<>>
    /\ Outstanding(sinks["cb1"].calls) = {1}
    /\ sinks["cb1"].feed # <<>>

\* The calls of a callback that returned something that is not a Promise.
NotPromise(calls) == {i \in 1..Len(calls) : calls[i].result = "not_promise"}

\* C40: a call that returns something that is not a Promise is the last call
\* of its sink: the job of the sink stops there, logs no warning for it and
\* calls the sink for no later item.
C40_NotPromiseAborts ==
    /\ [](/\ NotPromise(bridge.calls) # {} =>
                 /\ NotPromise(bridge.calls) = {Len(bridge.calls)}
                 /\ bridge.pc = "panicked"
          /\ \A s \in SinkIds :
                 NotPromise(sinks[s].calls) # {} =>
                     /\ NotPromise(sinks[s].calls) = {Len(sinks[s].calls)}
                     /\ sinks[s].pc = "panicked")
    /\ [][/\ NotPromise(bridge'.calls) # {} =>
                 /\ bridge'.warnings = bridge.warnings
                 /\ NotPromise(bridge.calls) # {} => bridge'.calls = bridge.calls
          /\ \A s \in SinkIds :
                 NotPromise(sinks'[s].calls) # {} =>
                     /\ sinks'[s].warnings = sinks[s].warnings
                     /\ NotPromise(sinks[s].calls) # {} =>
                            sinks'[s].calls = sinks[s].calls]_vars

\* The callback of each feed threw at its first item, which was logged, and
\* returned something that is not a Promise at its second; a later item of
\* the room key feed waits and is not delivered.
C40_Witness ==
    /\ Len(bridge.calls) = 2
    /\ bridge.calls[1].result = "throws"
    /\ NotPromise(bridge.calls) = {2}
    /\ bridge.warnings = 1
    /\ bridge.feed # <<>>
    /\ Len(sinks["cb1"].calls) = 2
    /\ NotPromise(sinks["cb1"].calls) = {2}
    /\ sinks["cb1"].warnings = 1

====
